---- MODULE Spec2Model ----
(***************************************************************************)
(* Real-time ANPR pipeline: camera acquisition (camera/manager.py), the    *)
(* frame bus and processor loop (main.py), the per-camera tracker          *)
(* (tracking/engine.py), the OCR engine with the plate fields of a track   *)
(* and the fusion of plate readings (ocr/engine.py, core/events.py), the   *)
(* entry/exit event engine (events/engine.py), the per-frame step that     *)
(* feeds tracker output to it (main.py), the database manager with its     *)
(* writer thread (database/manager.py) and the shutdown of the pipeline    *)
(* (main.py), as state machines.                                           *)
(***************************************************************************)
EXTENDS Integers, Sequences, FiniteSets, TLC

(***************************************************************************)
(* Bounds of the model                                                     *)
(***************************************************************************)
\* largest frame_queue_size examined
MaxQueue == 3
\* successful capture reads of the camera in the stalled-processor scenario
StallReads == 10
\* successful capture reads per camera in the two-camera scenario
OrderReads == 3
\* driver failures (failed reads / failed probes) in the outage scenario
OutageFaults == 8
\* successful capture reads in the outage scenario
OutageReads == 1
\* driver failures and reads in the shutdown scenario
StopFaults == 2

(***************************************************************************)
(* Program constants                                                       *)
(***************************************************************************)
\* CameraStream.max_reconnect_delay
max_reconnect_delay == 60
\* SystemConfig.frame_queue_size default
frame_queue_size_default == 2

Min(a, b) == IF a <= b THEN a ELSE b
Max(a, b) == IF a >= b THEN a ELSE b

RECURSIVE Pow2(_)
Pow2(n) == IF n <= 0 THEN 1 ELSE 2 * Pow2(n - 1)

(***************************************************************************)
(* State                                                                   *)
(*  config      the configuration: cameras, frame_queue_size               *)
(*  env         what the surroundings may still do: driver outcomes left,  *)
(*              whether the processor is stalled, whether stop() is called *)
(*  frame_queue ANPRPipeline.frame_queue, a FIFO of frame envelopes        *)
(*  stream      CameraStream fields, per camera                            *)
(*  thread      per camera, the position and locals of the capture thread  *)
(*              and of the thread that runs stop()                         *)
(*  obs         history: events handed to event_callback, frames the       *)
(*              processor dequeued, reads, waits                           *)
(***************************************************************************)
VARIABLES config, env, frame_queue, stream, thread, obs

(***************************************************************************)
(*  tracking       TrackingConfig of the tracker                           *)
(*  tracks         TrackingEngine.tracks: track_id -> Track                *)
(*  kalman_filters the keys of TrackingEngine.kalman_filters               *)
(*  next_track_id  TrackingEngine.next_track_id                            *)
(*  last           what the last update() call did: its number, the state  *)
(*                 assignments it made, the tracks it returned             *)
(***************************************************************************)
VARIABLES tracking, tracks, kalman_filters, next_track_id, last

(***************************************************************************)
(*  match          one call of TrackingEngine._match: the tracks and the   *)
(*                 detections it is given, the threshold, what it returns  *)
(***************************************************************************)
VARIABLES match

(***************************************************************************)
(*  ocr_config     OCRConfig of the engine                                 *)
(*  ocr            OCREngine fields: is_loaded, active_ocr_count,          *)
(*                 last_ocr_time, the statistics counters                  *)
(*  plates         per track, the plate fields of Track: plate_readings,   *)
(*                 plate_text, plate_confidence, plate_locked              *)
(*  proc           the processor inside step 3 of _process_frame: its      *)
(*                 position, the track in hand, the clock                  *)
(*  seen           history: the admissions, the refusals, the locks        *)
(***************************************************************************)
VARIABLES ocr_config, ocr, plates, proc, seen

\* one call of OCREngine.fuse_readings: its arguments, whether it has returned,
\* and what it returned
VARIABLES fuse

\* one EventEngine and the tracks handed to it:
\*  event_config  EventConfig: min_dwell_time, dedup_window (seconds),
\*                require_plate_for_entry, require_plate_for_exit
\*  event_engine  track_states, recent_plates, total_entries, total_exits
\*  vehicles      per track: first_seen, plate_text, plate_locked, vehicle_state
\*  clock         datetime.now(), in seconds
\*  call          the process_track call just made, if the last step was one:
\*                its track, its time_since_update, its result
\*  emitted       the events process_track has returned
VARIABLES event_config, event_engine, vehicles, clock, call, emitted

\* the processor (ANPRPipeline._process_loop): processed_frames, and for each
\* track the history `unseen`: the frames of the camera, in a row since the
\* frame that made the track Exiting, in which it got no detection (-1 when
\* it is not Exiting or got one)
VARIABLES pipeline

\* one call of iou: its two boxes and both results
VARIABLES iou_call

\* one DatabaseManager:
\*  database  write_queue, is_running, total_writes, failed_writes; conn, the
\*            sqlite3 connection: whether it is open, the rows committed and
\*            the rows of its open transaction; writer, the locals and the
\*            position of _write_worker; closer, the position of close()
\*  dbenv     the scenario (what the callers and the database file do), the
\*            clock in quarters of a second, and history: the records put,
\*            dropped and flushed, what the last read returned
VARIABLES database, dbenv

\* ANPRPipeline: is_running, stop_event, where stop() and the processor
\* thread are
VARIABLES anpr

camVars == <<config, env, frame_queue, stream, thread, obs>>
trkVars == <<tracking, tracks, kalman_filters, next_track_id, last>>
mtcVars == <<match>>
ocrVars == <<ocr_config, ocr, plates, proc, seen>>
fusVars == <<fuse>>
evtVars == <<event_config, event_engine, vehicles, clock, call, emitted>>
pipVars == <<pipeline>>
iouVars == <<iou_call>>
dbVars == <<database, dbenv>>
anprVars == <<anpr>>
nonCamVars == <<trkVars, mtcVars, ocrVars, fusVars, evtVars, pipVars, iouVars, dbVars, anprVars>>
nonTrkVars == <<camVars, mtcVars, ocrVars, fusVars, evtVars, pipVars, iouVars, dbVars, anprVars>>
nonMtcVars == <<camVars, trkVars, ocrVars, fusVars, evtVars, pipVars, iouVars, dbVars, anprVars>>
nonOcrVars == <<camVars, trkVars, mtcVars, fusVars, evtVars, pipVars, iouVars, dbVars, anprVars>>
nonFusVars == <<camVars, trkVars, mtcVars, ocrVars, evtVars, pipVars, iouVars, dbVars, anprVars>>
nonEvtVars == <<camVars, trkVars, mtcVars, ocrVars, fusVars, pipVars, iouVars, dbVars, anprVars>>
nonPipVars == <<camVars, mtcVars, ocrVars, fusVars, iouVars, dbVars, anprVars>>
nonIouVars == <<camVars, trkVars, mtcVars, ocrVars, fusVars, evtVars, pipVars, dbVars, anprVars>>
nonDbVars == <<camVars, trkVars, mtcVars, ocrVars, fusVars, evtVars, pipVars, iouVars, anprVars>>
nonAnprVars == <<camVars, trkVars, mtcVars, ocrVars, fusVars, evtVars, pipVars, iouVars, dbVars>>
vars == <<config, env, frame_queue, stream, thread, obs,
          tracking, tracks, kalman_filters, next_track_id, last,
          match, ocr_config, ocr, plates, proc, seen, fuse,
          event_config, event_engine, vehicles, clock, call, emitted, pipeline, iou_call,
          database, dbenv, anpr>>

Cams == config.cameras

NewStream ==
  [is_running |-> TRUE, is_connected |-> FALSE, cap |-> FALSE,
   stop_event |-> FALSE, frame_count |-> 0, dropped_frames |-> 0,
   reconnect_attempts |-> 0]

NewThread ==
  [capture |-> [pc |-> "loop", site |-> "none", was_connected |-> FALSE, delay |-> 0],
   stop    |-> [pc |-> "idle", site |-> "none", was_connected |-> FALSE, delay |-> 0]]

NewObs ==
  [emitted |-> <<>>, dequeued |-> <<>>, reads |-> 0, faults |-> 0,
   fails |-> 0, cause |-> "start", waits |-> <<>>]

Scenarios ==
  {[cameras |-> {1}, frame_queue_size |-> n, stalled |-> TRUE,
    maxReads |-> StallReads, maxFaults |-> 0, canStop |-> FALSE] : n \in 1..MaxQueue}
  \cup
  {[cameras |-> {1, 2}, frame_queue_size |-> frame_queue_size_default, stalled |-> FALSE,
    maxReads |-> OrderReads, maxFaults |-> 0, canStop |-> FALSE]}
  \cup
  {[cameras |-> {1}, frame_queue_size |-> 1, stalled |-> FALSE,
    maxReads |-> OutageReads, maxFaults |-> OutageFaults, canStop |-> FALSE]}
  \cup
  {[cameras |-> {1}, frame_queue_size |-> 1, stalled |-> FALSE,
    maxReads |-> StopFaults, maxFaults |-> StopFaults, canStop |-> TRUE]}

\* CameraStream.__init__ followed by start(): the capture thread is at the loop head
InitCamera ==
  \E s \in Scenarios :
    /\ config = [cameras |-> s.cameras, frame_queue_size |-> s.frame_queue_size]
    /\ env = [stalled |-> s.stalled, maxReads |-> s.maxReads,
              maxFaults |-> s.maxFaults, canStop |-> s.canStop]
    /\ frame_queue = <<>>
    /\ stream = [c \in s.cameras |-> NewStream]
    /\ thread = [c \in s.cameras |-> NewThread]
    /\ obs = [c \in s.cameras |-> NewObs]

pcOf(c, t) == thread[c][t].pc

Goto(c, t, l) == thread' = [thread EXCEPT ![c][t].pc = l]

CallDisconnect(c, t, site) ==
  thread' = [thread EXCEPT ![c][t].pc = "d_test", ![c][t].site = site]

BackoffDelay(attempts) == Min(Pow2(attempts), max_reconnect_delay)

(***************************************************************************)
(* CameraStream._capture_loop                                              *)
(***************************************************************************)
\* line 153: while self.is_running and not self.stop_event.is_set()
LoopTest(c) ==
  /\ pcOf(c, "capture") = "loop"
  /\ IF stream[c].is_running /\ ~stream[c].stop_event
       THEN Goto(c, "capture", "check")
       ELSE Goto(c, "capture", "ended")
  /\ UNCHANGED <<config, env, frame_queue, stream, obs, nonCamVars>>

\* line 155: if not self.is_connected
CheckConnected(c) ==
  /\ pcOf(c, "capture") = "check"
  /\ IF ~stream[c].is_connected
       THEN Goto(c, "capture", "open")
       ELSE Goto(c, "capture", "read")
  /\ UNCHANGED <<config, env, frame_queue, stream, obs, nonCamVars>>

\* _connect, line 86: self.cap = cv2.VideoCapture(source)
ConnectOpen(c) ==
  /\ pcOf(c, "capture") = "open"
  /\ stream' = [stream EXCEPT ![c].cap = TRUE]
  /\ Goto(c, "capture", "probe")
  /\ UNCHANGED <<config, env, frame_queue, obs, nonCamVars>>

\* _connect, lines 89-100: cap.set(...), the probe read. A handle that stop()
\* has set to None raises AttributeError, handled at line 127 like a failure.
ConnectProbe(c) ==
  /\ pcOf(c, "capture") = "probe"
  /\ \/ /\ stream[c].cap
        /\ Goto(c, "capture", "mark")
        /\ obs' = obs
     \/ /\ stream[c].cap
        /\ obs[c].faults < env.maxFaults
        /\ obs' = [obs EXCEPT ![c].faults = @ + 1]
        /\ CallDisconnect(c, "capture", "L99")
     \/ /\ ~stream[c].cap
        /\ obs' = obs
        /\ CallDisconnect(c, "capture", "L129")
  /\ UNCHANGED <<config, env, frame_queue, stream, nonCamVars>>

ConnectMarkNoReset(c) ==
  /\ pcOf(c, "capture") = "mark"
  /\ stream' = [stream EXCEPT ![c].is_connected = TRUE]
  /\ Goto(c, "capture", "getprops")
  /\ UNCHANGED <<config, env, frame_queue, obs, nonCamVars>>

\* _connect, lines 102-103: is_connected = True; reconnect_attempts = 0
ConnectMark(c) ==
  /\ pcOf(c, "capture") = "mark"
  /\ stream' = [stream EXCEPT ![c].is_connected = TRUE, ![c].reconnect_attempts = 0]
  /\ Goto(c, "capture", "getprops")
  /\ UNCHANGED <<config, env, frame_queue, obs, nonCamVars>>

\* _connect, lines 105-107: self.cap.get(...); AttributeError when the handle is None
ConnectGetProps(c) ==
  /\ pcOf(c, "capture") = "getprops"
  /\ IF stream[c].cap
       THEN Goto(c, "capture", "emit_connected")
       ELSE CallDisconnect(c, "capture", "L129")
  /\ UNCHANGED <<config, env, frame_queue, stream, obs, nonCamVars>>

\* _connect, lines 115-125: event_callback(CAMERA_CONNECTED); return True; continue
ConnectEmit(c) ==
  /\ pcOf(c, "capture") = "emit_connected"
  /\ obs' = [obs EXCEPT ![c].emitted = Append(@, "CameraConnected"),
                        ![c].fails = 0, ![c].cause = "none", ![c].waits = <<>>]
  /\ Goto(c, "capture", "loop")
  /\ UNCHANGED <<config, env, frame_queue, stream, nonCamVars>>

\* lines 160-165: delay = min(2 ** attempts, max_reconnect_delay); attempts += 1
Backoff(c) ==
  /\ pcOf(c, "capture") = "backoff"
  /\ thread' = [thread EXCEPT ![c].capture.pc = "wait",
                              ![c].capture.delay = BackoffDelay(stream[c].reconnect_attempts)]
  /\ stream' = [stream EXCEPT ![c].reconnect_attempts = @ + 1]
  /\ obs' = [obs EXCEPT ![c].fails = @ + 1]
  /\ UNCHANGED <<config, env, frame_queue, nonCamVars>>

\* line 166 (and line 204, delay 1): self.stop_event.wait(delay); continue.
\* The wait lasts `delay` seconds unless stop_event is set.
Wait(c) ==
  /\ pcOf(c, "capture") = "wait"
  /\ obs' = [obs EXCEPT ![c].waits =
                IF stream[c].stop_event THEN @ ELSE Append(@, thread[c].capture.delay)]
  /\ Goto(c, "capture", "loop")
  /\ UNCHANGED <<config, env, frame_queue, stream, nonCamVars>>

ReadBacksOff(c) ==
  /\ pcOf(c, "capture") = "read"
  /\ \/ /\ stream[c].cap
        /\ obs[c].reads < env.maxReads
        /\ obs' = [obs EXCEPT ![c].reads = @ + 1]
        /\ Goto(c, "capture", "put")
     \/ /\ stream[c].cap
        /\ obs[c].faults < env.maxFaults
        /\ obs' = [obs EXCEPT ![c].faults = @ + 1, ![c].cause = "read_failed",
                              ![c].waits = <<>>]
        /\ CallDisconnect(c, "capture", "L203")
  /\ UNCHANGED <<config, env, frame_queue, stream, nonCamVars>>

\* lines 171-176 and 201: ret, frame = self.cap.read(): a frame, no frame, or
\* an exception (also the AttributeError of a handle stop() has set to None)
Read(c) ==
  /\ pcOf(c, "capture") = "read"
  /\ \/ /\ stream[c].cap
        /\ obs[c].reads < env.maxReads
        /\ obs' = [obs EXCEPT ![c].reads = @ + 1]
        /\ Goto(c, "capture", "put")
     \/ /\ stream[c].cap
        /\ obs[c].faults < env.maxFaults
        /\ obs' = [obs EXCEPT ![c].faults = @ + 1, ![c].cause = "read_failed",
                              ![c].waits = <<>>]
        /\ CallDisconnect(c, "capture", "L175")
     \/ /\ \/ ~stream[c].cap
           \/ stream[c].cap /\ obs[c].faults < env.maxFaults
        /\ obs' = [obs EXCEPT ![c].faults = IF stream[c].cap THEN @ + 1 ELSE @,
                              ![c].cause = "read_raised", ![c].waits = <<>>]
        /\ CallDisconnect(c, "capture", "L203")
  /\ UNCHANGED <<config, env, frame_queue, stream, nonCamVars>>

Envelope(c) == [camera_id |-> c, frame_id |-> stream[c].frame_count]

PublishDropOldest(c) ==
  /\ pcOf(c, "capture") = "put"
  /\ IF Len(frame_queue) < config.frame_queue_size
       THEN /\ frame_queue' = Append(frame_queue, Envelope(c))
            /\ stream' = [stream EXCEPT ![c].frame_count = @ + 1]
       ELSE /\ frame_queue' = Append(Tail(frame_queue), Envelope(c))
            /\ stream' = [stream EXCEPT ![c].dropped_frames = @ + 1]
  /\ Goto(c, "capture", "loop")
  /\ UNCHANGED <<config, env, obs, nonCamVars>>

PublishNoCount(c) ==
  /\ pcOf(c, "capture") = "put"
  /\ IF Len(frame_queue) < config.frame_queue_size
       THEN /\ frame_queue' = Append(frame_queue, Envelope(c))
            /\ stream' = stream
       ELSE /\ frame_queue' = frame_queue
            /\ stream' = [stream EXCEPT ![c].dropped_frames = @ + 1]
  /\ Goto(c, "capture", "loop")
  /\ UNCHANGED <<config, env, obs, nonCamVars>>

\* lines 179-199: frame_queue.put_nowait(envelope); frame_count += 1, or on Full
\* dropped_frames += 1; then the frame-rate wait and the next iteration
Publish(c) ==
  /\ pcOf(c, "capture") = "put"
  /\ IF Len(frame_queue) < config.frame_queue_size
       THEN /\ frame_queue' = Append(frame_queue, Envelope(c))
            /\ stream' = [stream EXCEPT ![c].frame_count = @ + 1]
       ELSE /\ frame_queue' = frame_queue
            /\ stream' = [stream EXCEPT ![c].dropped_frames = @ + 1]
  /\ Goto(c, "capture", "loop")
  /\ UNCHANGED <<config, env, obs, nonCamVars>>

(***************************************************************************)
(* CameraStream._disconnect, run by the capture thread and by stop()       *)
(***************************************************************************)
\* where _disconnect returns to, by call site
ReturnOf(site) ==
  CASE site = "L99" -> "backoff"
    [] site = "L129" -> "backoff"
    [] site = "L175" -> "loop"
    [] site = "L203" -> "wait"
    [] site = "L69" -> "done"

\* line 134: if self.cap
DisconnectTest(c, t) ==
  /\ pcOf(c, t) = "d_test"
  /\ IF stream[c].cap THEN Goto(c, t, "d_release") ELSE Goto(c, t, "d_was")
  /\ UNCHANGED <<config, env, frame_queue, stream, obs, nonCamVars>>

\* lines 135-136: self.cap.release(); self.cap = None. When the other thread has
\* set cap to None since the test, release() raises AttributeError: inside the
\* try blocks (lines 99, 175) the handler calls _disconnect again (lines 129,
\* 203); inside a handler, or in stop(), the exception leaves the function.
DisconnectRelease(c, t) ==
  /\ pcOf(c, t) = "d_release"
  /\ IF stream[c].cap
       THEN /\ stream' = [stream EXCEPT ![c].cap = FALSE]
            /\ Goto(c, t, "d_was")
       ELSE /\ stream' = stream
            /\ CASE thread[c][t].site = "L99" -> CallDisconnect(c, t, "L129")
                 [] thread[c][t].site = "L175" -> CallDisconnect(c, t, "L203")
                 [] OTHER -> Goto(c, t, "raised")
  /\ UNCHANGED <<config, env, frame_queue, obs, nonCamVars>>

\* line 138: was_connected = self.is_connected
DisconnectWas(c, t) ==
  /\ pcOf(c, t) = "d_was"
  /\ thread' = [thread EXCEPT ![c][t].pc = "d_clear",
                              ![c][t].was_connected = stream[c].is_connected]
  /\ UNCHANGED <<config, env, frame_queue, stream, obs, nonCamVars>>

\* lines 139-147: self.is_connected = False; if was_connected: callback(DISCONNECTED)
DisconnectClear(c, t) ==
  /\ pcOf(c, t) = "d_clear"
  /\ stream' = [stream EXCEPT ![c].is_connected = FALSE]
  /\ obs' = [obs EXCEPT ![c].emitted =
                IF thread[c][t].was_connected THEN Append(@, "CameraDisconnected") ELSE @]
  /\ thread' = [thread EXCEPT ![c][t].pc = ReturnOf(thread[c][t].site),
                              ![c][t].delay = IF thread[c][t].site = "L203" THEN 1 ELSE @]
  /\ UNCHANGED <<config, env, frame_queue, nonCamVars>>

(***************************************************************************)
(* CameraStream.stop, on the caller's thread                               *)
(***************************************************************************)
\* lines 59-64: is_running = False; stop_event.set()
StopSignal(c) ==
  /\ env.canStop
  /\ pcOf(c, "stop") = "idle"
  /\ stream[c].is_running
  /\ stream' = [stream EXCEPT ![c].is_running = FALSE, ![c].stop_event = TRUE]
  /\ Goto(c, "stop", "join")
  /\ UNCHANGED <<config, env, frame_queue, obs, nonCamVars>>

\* lines 66-69: thread.join(timeout=5.0) returns when the capture thread has
\* ended or when the timeout has passed; then _disconnect()
StopJoin(c) ==
  /\ pcOf(c, "stop") = "join"
  /\ CallDisconnect(c, "stop", "L69")
  /\ UNCHANGED <<config, env, frame_queue, stream, obs, nonCamVars>>

(***************************************************************************)
(* ANPRPipeline._processing_loop: the consumer of the frame bus            *)
(***************************************************************************)
DequeueNewest ==
  /\ ~env.stalled
  /\ frame_queue # <<>>
  /\ frame_queue' = SubSeq(frame_queue, 1, Len(frame_queue) - 1)
  /\ obs' = [obs EXCEPT ![frame_queue[Len(frame_queue)].camera_id].dequeued =
                           Append(@, frame_queue[Len(frame_queue)].frame_id)]
  /\ UNCHANGED <<config, env, stream, thread, nonCamVars>>

\* main.py lines 121-136: frame_data = self.frame_queue.get(timeout=0.1)
Dequeue ==
  /\ ~env.stalled
  /\ frame_queue # <<>>
  /\ frame_queue' = Tail(frame_queue)
  /\ obs' = [obs EXCEPT ![Head(frame_queue).camera_id].dequeued =
                           Append(@, Head(frame_queue).frame_id)]
  /\ UNCHANGED <<config, env, stream, thread, nonCamVars>>

NextCamera ==
  \/ \E c \in Cams : LoopTest(c)
  \/ \E c \in Cams : CheckConnected(c)
  \/ \E c \in Cams : ConnectOpen(c)
  \/ \E c \in Cams : ConnectProbe(c)
  \/ \E c \in Cams : ConnectMark(c)
  \/ \E c \in Cams : ConnectGetProps(c)
  \/ \E c \in Cams : ConnectEmit(c)
  \/ \E c \in Cams : Backoff(c)
  \/ \E c \in Cams : Wait(c)
  \/ \E c \in Cams : Read(c)
  \/ \E c \in Cams : Publish(c)
  \/ \E c \in Cams, t \in {"capture", "stop"} : DisconnectTest(c, t)
  \/ \E c \in Cams, t \in {"capture", "stop"} : DisconnectRelease(c, t)
  \/ \E c \in Cams, t \in {"capture", "stop"} : DisconnectWas(c, t)
  \/ \E c \in Cams, t \in {"capture", "stop"} : DisconnectClear(c, t)
  \/ \E c \in Cams : StopSignal(c)
  \/ \E c \in Cams : StopJoin(c)
  \/ Dequeue

(***************************************************************************)
(* tracking/engine.py: iou, TrackingEngine                                 *)
(***************************************************************************)
\* boxes [x1, y1, x2, y2] the detector and the Kalman filters produce
Boxes == {<<0, 0, 4, 4>>, <<3, 0, 7, 4>>}

\* intersection over the area of the first box
iouOverFirst(bbox1, bbox2) ==
  LET x1_i == Max(bbox1[1], bbox2[1])
      y1_i == Max(bbox1[2], bbox2[2])
      x2_i == Min(bbox1[3], bbox2[3])
      y2_i == Min(bbox1[4], bbox2[4])
      intersection == (x2_i - x1_i) * (y2_i - y1_i)
      area1 == (bbox1[3] - bbox1[1]) * (bbox1[4] - bbox1[2])
  IN  IF x2_i < x1_i \/ y2_i < y1_i THEN <<0, 1>>
      ELSE IF area1 > 0 THEN <<intersection, area1>> ELSE <<0, 1>>

\* iou(bbox1, bbox2) as the fraction <<intersection, union>>
iou(bbox1, bbox2) ==
  LET x1_i == Max(bbox1[1], bbox2[1])
      y1_i == Max(bbox1[2], bbox2[2])
      x2_i == Min(bbox1[3], bbox2[3])
      y2_i == Min(bbox1[4], bbox2[4])
      intersection == (x2_i - x1_i) * (y2_i - y1_i)
      area1 == (bbox1[3] - bbox1[1]) * (bbox1[4] - bbox1[2])
      area2 == (bbox2[3] - bbox2[1]) * (bbox2[4] - bbox2[2])
      union == area1 + area2 - intersection
  IN  IF x2_i < x1_i \/ y2_i < y1_i THEN <<0, 1>>
      ELSE IF union > 0 THEN <<intersection, union>> ELSE <<0, 1>>

\* p > q for fractions with positive denominators
FracGt(p, q) == p[1] * q[2] > q[1] * p[2]

\* list(self.tracks.keys()): the dict keeps insertion order, which is id order
RECURSIVE SortedIds(_)
SortedIds(S) ==
  IF S = {} THEN <<>>
  ELSE LET m == CHOOSE x \in S : \A y \in S : x <= y
       IN  <<m>> \o SortedIds(S \ {m})

RECURSIVE SortByIouTiesLast(_)
SortByIouTiesLast(ms) ==
  IF ms = <<>> THEN <<>>
  ELSE LET rest == SortByIouTiesLast(Tail(ms))
           x == Head(ms)
           k == Cardinality({i \in 1..Len(rest) : ~FracGt(x.v, rest[i].v)})
       IN  SubSeq(rest, 1, k) \o <<x>> \o SubSeq(rest, k + 1, Len(rest))

\* matches.sort(key=lambda x: x[2], reverse=True): stable, equal keys keep
\* their enumeration order
RECURSIVE SortByIou(_)
SortByIou(ms) ==
  IF ms = <<>> THEN <<>>
  ELSE LET rest == SortByIou(Tail(ms))
           x == Head(ms)
           \* x goes before every element of rest that is not greater than it
           k == Cardinality({i \in 1..Len(rest) : FracGt(rest[i].v, x.v)})
       IN  SubSeq(rest, 1, k) \o <<x>> \o SubSeq(rest, k + 1, Len(rest))

RECURSIVE GreedyKeepsDet(_, _, _, _)
GreedyKeepsDet(ms, matched, unmatched_tracks, unmatched_dets) ==
  IF ms = <<>>
    THEN [matched |-> matched, unmatched_dets |-> unmatched_dets,
          unmatched_tracks |-> unmatched_tracks]
    ELSE LET m == Head(ms)
         IN  IF m.track_id \in unmatched_tracks
               THEN GreedyKeepsDet(Tail(ms), matched \cup {<<m.track_id, m.j>>},
                                   unmatched_tracks \ {m.track_id}, unmatched_dets \ {m.j})
               ELSE GreedyKeepsDet(Tail(ms), matched, unmatched_tracks, unmatched_dets)

\* lines 249-254: the greedy pass over the sorted candidates
RECURSIVE Greedy(_, _, _, _)
Greedy(ms, matched, unmatched_tracks, unmatched_dets) ==
  IF ms = <<>>
    THEN [matched |-> matched, unmatched_dets |-> unmatched_dets,
          unmatched_tracks |-> unmatched_tracks]
    ELSE LET m == Head(ms)
         IN  IF m.track_id \in unmatched_tracks /\ m.j \in unmatched_dets
               THEN Greedy(Tail(ms), matched \cup {<<m.track_id, m.j>>},
                           unmatched_tracks \ {m.track_id}, unmatched_dets \ {m.j})
               ELSE Greedy(Tail(ms), matched, unmatched_tracks, unmatched_dets)

\* TrackingEngine._match over the tracks `trks` (detections are numbered from 1)
Match(trks, detections, iou_threshold) ==
  IF DOMAIN trks = {} \/ detections = <<>>
    THEN [matched |-> {}, unmatched_dets |-> 1..Len(detections),
          unmatched_tracks |-> DOMAIN trks]
    ELSE LET track_ids == SortedIds(DOMAIN trks)
             n == Len(track_ids)
             m == Len(detections)
             cells == [k \in 1..(n * m) |->
                         LET i == ((k - 1) \div m) + 1
                             j == ((k - 1) % m) + 1
                         IN  [track_id |-> track_ids[i], j |-> j,
                              v |-> iou(trks[track_ids[i]].bbox, detections[j])]]
             matches == SelectSeq(cells, LAMBDA c : FracGt(c.v, iou_threshold))
         IN  Greedy(SortByIou(matches), {}, DOMAIN trks, 1..Len(detections))

PredictNoAge(trks, predicted) ==
  [id \in DOMAIN trks |->
     IF id \in kalman_filters
       THEN [trks[id] EXCEPT !.bbox = predicted[id], !.time_since_update = @ + 1]
       ELSE trks[id]]

\* lines 145-150: kf.predict() for every filter; bbox, age, time_since_update.
\* The arithmetic of the Kalman filter is not modelled: the predicted box of
\* each track is the box `predicted[id]`.
Predict(trks, predicted) ==
  [id \in DOMAIN trks |->
     IF id \in kalman_filters
       THEN [trks[id] EXCEPT !.bbox = predicted[id], !.age = @ + 1,
                             !.time_since_update = @ + 1]
       ELSE trks[id]]

\* Track.update_bbox (core/events.py 133-139)
update_bbox(track, bbox) ==
  [track EXCEPT !.bbox = bbox, !.hits = @ + 1, !.time_since_update = 0]

\* lines 173-176: TENTATIVE -> CONFIRMED
Promote(track) ==
  IF track.state = "tentative" /\ track.hits >= tracking.min_hits
    THEN [track EXCEPT !.state = "confirmed"] ELSE track

\* lines 178-181: LOST -> CONFIRMED
Recover(track) ==
  IF track.state = "lost" THEN [track EXCEPT !.state = "confirmed"] ELSE track

DemoteAny(track) == [track EXCEPT !.state = "lost"]

\* lines 192-193: CONFIRMED -> LOST
Demote(track) ==
  IF track.state = "confirmed" THEN [track EXCEPT !.state = "lost"] ELSE track

ExpireLate(track) ==
  IF track.time_since_update > tracking.max_lost_frames + 1
    THEN [track EXCEPT !.state = "deleted"] ELSE track

\* lines 195-198: delete tracks that are lost too long
Expire(track) ==
  IF track.time_since_update > tracking.max_lost_frames
    THEN [track EXCEPT !.state = "deleted"] ELSE track

NewTrackNoHit(bbox) ==
  [state |-> "tentative", bbox |-> bbox, hits |-> 0, age |-> 0,
   time_since_update |-> 0]

\* _create_track, lines 265-277
NewTrack(bbox) ==
  [state |-> "tentative", bbox |-> bbox, hits |-> 1, age |-> 0,
   time_since_update |-> 0]

\* the assignments to track.state along the states s0, s1, s2 one track passes
\* through in a call, with the facts the assignment was decided on
Changes(id, s0, s1, s2, matched, track) ==
  {[track_id |-> id, from |-> p[1], to |-> p[2], matched |-> matched,
    hits |-> track.hits, time_since_update |-> track.time_since_update] :
      p \in {q \in {<<s0, s1>>, <<s1, s2>>} : q[1] # q[2]}}

\* lines 155-198 for the tracks that existed before the call: the matched ones
\* are corrected and promoted, the others demoted and expired. The box a filter
\* holds after kf.update(detection.bbox) is taken to be the measurement.
Settle(t1, mt, detections) ==
  [id \in DOMAIN t1 |->
     IF \E p \in mt.matched : p[1] = id
       THEN LET j == CHOOSE j \in 1..Len(detections) : <<id, j>> \in mt.matched
                hit == update_bbox(t1[id], detections[j])
            IN  [track |-> Recover(Promote(hit)),
                 changes |-> Changes(id, t1[id].state, Promote(hit).state,
                                     Recover(Promote(hit)).state, TRUE, hit)]
       ELSE [track |-> Expire(Demote(t1[id])),
             changes |-> Changes(id, t1[id].state, Demote(t1[id]).state,
                                 Expire(Demote(t1[id])).state, FALSE, t1[id])]]

AdvanceIdOnce(next, k) == IF k > 0 THEN next + 1 ELSE next

\* _create_track, lines 260-261, called for k detections: next_track_id += 1
AdvanceId(next, k) == next + k

ActiveAll(trks) == DOMAIN trks

\* lines 210-213: the tracks whose state is CONFIRMED or LOST
Active(trks) == {id \in DOMAIN trks : trks[id].state \in {"confirmed", "lost"}}

\* TrackingEngine.update(detections, frame_height), lines 144-217, on the
\* predicted tracks t1 with the association mt
Update(t1, mt, detections) ==
  LET old == Settle(t1, mt, detections)
      newDets == SortedIds(mt.unmatched_dets)
      newIds == {next_track_id + k - 1 : k \in 1..Len(newDets)}
      t2 == [id \in DOMAIN t1 \cup newIds |->
               IF id \in newIds
                 THEN NewTrack(detections[newDets[id - next_track_id + 1]])
                 ELSE old[id].track]
      deleted_ids == {id \in DOMAIN t2 : t2[id].state = "deleted"}
      kept == DOMAIN t2 \ deleted_ids
      changes == UNION {old[id].changes : id \in DOMAIN t1}
  IN  /\ tracks' = [id \in kept |-> t2[id]]
      /\ kalman_filters' = (kalman_filters \cup newIds) \ deleted_ids
      /\ next_track_id' = AdvanceId(next_track_id, Len(newDets))
      /\ last' = [frame |-> last.frame + 1,
                  changes |-> changes,
                  returned |-> Active([id \in kept |-> t2[id]]),
                  detections |-> detections,
                  before |-> DOMAIN t1,
                  matched |-> mt.matched,
                  created |-> [k \in 1..Len(newDets) |->
                                 [track_id |-> next_track_id + k - 1, j |-> newDets[k]]],
                  assigned |-> last.assigned \o
                                 [k \in 1..Len(newDets) |-> next_track_id + k - 1],
                  was_confirmed |->
                     (last.was_confirmed \cup
                        {ch.track_id : ch \in {c \in changes : c.to = "confirmed"}})
                     \cap kept]

\* update() has not been called yet
NoCall ==
  [frame |-> 0, changes |-> {}, returned |-> {}, detections |-> <<>>,
   before |-> {}, matched |-> {}, created |-> <<>>, assigned |-> <<>>,
   was_confirmed |-> {}]

\* bounds of the tracker model
MaxMinHits == 3
MaxLost == 1
MaxTracks == 2
MaxFrames == 4

\* TrackingConfig.iou_threshold
iou_threshold_default == <<3, 10>>

\* what the detector returns for one frame: no, one or two boxes
DetectionLists ==
  {<<>>} \cup {<<a>> : a \in Boxes} \cup {<<a, b>> : a \in Boxes, b \in Boxes}

\* TrackingEngine.__init__, lines 118-131
InitTracker ==
  /\ tracking \in [min_hits : 1..MaxMinHits, max_lost_frames : 0..MaxLost,
                   iou_threshold : {iou_threshold_default}]
  /\ tracks = <<>>
  /\ kalman_filters = {}
  /\ next_track_id = 1
  /\ last = NoCall

\* one frame's call of update(): the detector's boxes and the boxes the
\* filters predict
UpdateCall ==
  /\ last.frame < MaxFrames
  /\ \E detections \in DetectionLists :
       \E predicted \in [DOMAIN tracks -> Boxes] :
         \E t1 \in {Predict(tracks, predicted)} :
           \E mt \in {Match(t1, detections, tracking.iou_threshold)} :
             /\ next_track_id + Cardinality(mt.unmatched_dets) <= MaxTracks + 1
             /\ Update(t1, mt, detections)
  /\ UNCHANGED <<tracking, nonTrkVars>>

IdleCamera ==
  /\ config = [cameras |-> {}, frame_queue_size |-> frame_queue_size_default]
  /\ env = [stalled |-> TRUE, maxReads |-> 0, maxFaults |-> 0, canStop |-> FALSE]
  /\ frame_queue = <<>>
  /\ stream = <<>>
  /\ thread = <<>>
  /\ obs = <<>>

IdleTracker ==
  /\ tracking = [min_hits |-> 3, max_lost_frames |-> 30, iou_threshold |-> iou_threshold_default]
  /\ tracks = <<>>
  /\ kalman_filters = {}
  /\ next_track_id = 1
  /\ last = NoCall

(***************************************************************************)
(* TrackingEngine._match as a function of its inputs                       *)
(***************************************************************************)
\* boxes with overlaps of 3/10 (the threshold itself), 1/2, 5/8, 6/10 (twice),
\* 7/10 and 0
MatchBoxes ==
  {<<0, 0, 6, 1>>, <<3, 0, 10, 1>>, <<0, 0, 10, 1>>, <<2, 0, 8, 1>>, <<20, 0, 21, 1>>}

\* bounds of the association model: track ids 1..MatchTracks, up to MatchDets
\* detections
MatchTracks == 3
MatchDets == 2

\* _match has not been called yet
NoResult == [matched |-> {}, unmatched_dets |-> {}, unmatched_tracks |-> {}]

\* self.tracks and detections as _match finds them (lines 219-221)
InitMatch ==
  \E S \in SUBSET (1..MatchTracks) : \E n \in 0..MatchDets :
    \E t \in [S -> [bbox : MatchBoxes]] : \E d \in [1..n -> MatchBoxes] :
      match = [tracks |-> t, detections |-> d, iou_threshold |-> iou_threshold_default,
               called |-> FALSE, result |-> NoResult]

\* matched, unmatched_dets, unmatched_tracks = self._match(detections)
MatchCall ==
  /\ ~match.called
  /\ match' = [match EXCEPT !.called = TRUE,
                            !.result = Match(match.tracks, match.detections,
                                             match.iou_threshold)]
  /\ UNCHANGED nonMtcVars

IdleMatch ==
  match = [tracks |-> <<>>, detections |-> <<>>, iou_threshold |-> iou_threshold_default,
           called |-> FALSE, result |-> NoResult]

(***************************************************************************)
(* ocr/engine.py: OCREngine, and step 3 of ANPRPipeline._process_frame     *)
(***************************************************************************)
\* bounds of the OCR model: max_concurrent in 0..MaxConcurrent,
\* throttle_frames in 1..MaxThrottle, fusion_min_samples in 1..MaxFusion, the
\* clock runs to MaxNow (in units of 1/20 s, the engine's nominal frame)
MaxConcurrent == 1
MaxThrottle == 2
MaxFusion == 2
MaxNow == 3
\* recognitions admitted in one behaviour
MaxCalls == 2

\* the tracks the tracker returns as Confirmed
OcrTracks == {1, 2}

\* cleaned plate texts (at least 3 characters): two within distance 1, one far
Texts == {<<1, 2, 3>>, <<1, 2, 4>>, <<5, 6, 7>>}

\* reading confidences, in percent
Confidences == {60, 90}

\* how one recognition ends (recognize_plate lines 127-181)
Outcomes == {"no_roi", "no_result", "no_text", "short_text", "raised", "read"}

Min3(a, b, c) == Min(a, Min(b, c))

\* levenshtein_distance lines 30-35: the row for character c1, begun as cur
RECURSIVE LevRow(_, _, _, _)
LevRow(previous_row, c1, s2, cur) ==
  IF Len(cur) = Len(s2) + 1 THEN cur
  ELSE LET j == Len(cur)
           insertions == previous_row[j + 1] + 1
           deletions == cur[j] + 1
           substitutions == previous_row[j] + (IF c1 # s2[j] THEN 1 ELSE 0)
       IN  LevRow(previous_row, c1, s2,
                  Append(cur, Min3(insertions, deletions, substitutions)))

\* levenshtein_distance lines 28-38: the rows for s1[i], s1[i+1], ...
RECURSIVE LevRows(_, _, _, _)
LevRows(s1, s2, i, previous_row) ==
  IF i > Len(s1) THEN previous_row[Len(previous_row)]
  ELSE LevRows(s1, s2, i + 1, LevRow(previous_row, s1[i], s2, <<i>>))

levenshtein_distance(s1, s2) ==
  LET a == IF Len(s1) < Len(s2) THEN s2 ELSE s1
      b == IF Len(s1) < Len(s2) THEN s1 ELSE s2
  IN  IF Len(b) = 0 THEN Len(a)
      ELSE LevRows(a, b, 1, [j \in 1..(Len(b) + 1) |-> j - 1])

\* max(readings, key=confidence): the first reading of highest confidence
MaxByConfidence(readings) ==
  LET i == CHOOSE i \in 1..Len(readings) :
             /\ \A k \in 1..Len(readings) : readings[k].confidence <= readings[i].confidence
             /\ \A k \in 1..(i - 1) : readings[k].confidence < readings[i].confidence
  IN  [text |-> readings[i].text, confidence |-> <<readings[i].confidence, 1>>]

\* fuse_readings lines 285-298: each reading joins the first group whose first
\* member is within distance 2, or starts a new group
RECURSIVE Group(_, _)
Group(readings, groups) ==
  IF readings = <<>> THEN groups
  ELSE LET reading == Head(readings)
           fits == {g \in 1..Len(groups) :
                      levenshtein_distance(reading.text, groups[g][1].text) <= 2}
       IN  IF fits = {}
             THEN Group(Tail(readings), Append(groups, <<reading>>))
             ELSE LET g == CHOOSE g \in fits : \A h \in fits : g <= h
                  IN  Group(Tail(readings),
                            [groups EXCEPT ![g] = Append(@, reading)])

MostCommonLast(group) ==
  LET count(i) == Cardinality({k \in 1..Len(group) : group[k].text = group[i].text})
      i == CHOOSE i \in 1..Len(group) :
             /\ \A k \in 1..Len(group) : count(k) <= count(i)
             /\ \A k \in (i + 1)..Len(group) : count(k) < count(i)
  IN  group[i].text

\* Counter(texts).most_common(1): the most frequent text, the first met on ties
MostCommon(group) ==
  LET count(i) == Cardinality({k \in 1..Len(group) : group[k].text = group[i].text})
      i == CHOOSE i \in 1..Len(group) :
             /\ \A k \in 1..Len(group) : count(k) <= count(i)
             /\ \A k \in 1..(i - 1) : count(k) < count(i)
  IN  group[i].text

RECURSIVE SumConfidence(_, _)
SumConfidence(group, text) ==
  IF group = <<>> THEN 0
  ELSE (IF Head(group).text = text THEN Head(group).confidence ELSE 0)
       + SumConfidence(Tail(group), text)

fuse_readingsOrNone(readings, fusion_min_samples) ==
  IF readings = <<>> THEN <<>>
  ELSE IF Len(readings) < fusion_min_samples THEN <<>>
  ELSE LET groups == Group(readings, <<>>)
           g == CHOOSE g \in 1..Len(groups) :
                  /\ \A h \in 1..Len(groups) : Len(groups[h]) <= Len(groups[g])
                  /\ \A h \in 1..(g - 1) : Len(groups[h]) < Len(groups[g])
           largest_group == groups[g]
           most_common == MostCommon(largest_group)
       IN  IF Len(largest_group) < fusion_min_samples
             THEN <<>>
             ELSE <<[text |-> most_common,
                     confidence |->
                       <<SumConfidence(largest_group, most_common),
                         Cardinality({k \in 1..Len(largest_group) :
                                        largest_group[k].text = most_common})>>,
                     num_samples |-> Len(largest_group)]>>

\* OCREngine.fuse_readings; None is the empty sequence, the average confidence
\* the fraction <<sum, count>>
fuse_readings(readings, fusion_min_samples) ==
  IF readings = <<>> THEN <<>>
  ELSE IF Len(readings) < fusion_min_samples THEN <<MaxByConfidence(readings)>>
  ELSE LET groups == Group(readings, <<>>)
           g == CHOOSE g \in 1..Len(groups) :
                  /\ \A h \in 1..Len(groups) : Len(groups[h]) <= Len(groups[g])
                  /\ \A h \in 1..(g - 1) : Len(groups[h]) < Len(groups[g])
           largest_group == groups[g]
           most_common == MostCommon(largest_group)
       IN  IF Len(largest_group) < fusion_min_samples
             THEN <<MaxByConfidence(readings)>>
             ELSE <<[text |-> most_common,
                     confidence |->
                       <<SumConfidence(largest_group, most_common),
                         Cardinality({k \in 1..Len(largest_group) :
                                        largest_group[k].text = most_common})>>,
                     num_samples |-> Len(largest_group)]>>

\* a Track that has no plate yet (core/events.py 123-126); None is <<>>
NewPlate ==
  [plate_readings |-> <<>>, plate_text |-> <<>>, plate_confidence |-> <<>>,
   plate_locked |-> FALSE]

\* OCREngine.__init__ lines 50-58
NewEngine(is_loaded) ==
  [is_loaded |-> is_loaded, active_ocr_count |-> 0, last_ocr_time |-> <<>>,
   total_ocr_calls |-> 0, successful_reads |-> 0, failed_reads |-> 0]

NewSeen ==
  [refused |-> "none", locked_as |-> [t \in OcrTracks |-> <<>>], revisited |-> {}]

\* the engine of one camera and the plates of its tracks; a failed model load
\* leaves enabled and is_loaded false (lines 60-61, 84-86)
InitOcr ==
  /\ \E on \in BOOLEAN :
       /\ ocr_config \in [enabled : {on}, throttle_frames : 1..MaxThrottle,
                           max_concurrent : 0..MaxConcurrent,
                           fusion_min_samples : 0..MaxFusion]
       /\ ocr = NewEngine(on)
  /\ plates = [t \in OcrTracks |-> NewPlate]
  /\ proc = [pc |-> "idle", track_id |-> 0, now |-> 0, outcome |-> "none",
             result |-> <<>>]
  /\ seen = NewSeen

\* why can_process refuses track_id at time now, "none" when it admits
Refusal(track_id, now) ==
  IF ~ocr_config.enabled \/ ~ocr.is_loaded THEN "disabled"
  ELSE IF ocr.active_ocr_count >= ocr_config.max_concurrent THEN "concurrent"
  ELSE IF track_id \in DOMAIN ocr.last_ocr_time
          /\ now - ocr.last_ocr_time[track_id] < ocr_config.throttle_frames
         THEN "throttle"
  ELSE "none"

can_processOverCap(track_id, now) ==
  /\ ocr_config.enabled /\ ocr.is_loaded
  /\ ~(ocr.active_ocr_count > ocr_config.max_concurrent)
  /\ ~(track_id \in DOMAIN ocr.last_ocr_time
        /\ now - ocr.last_ocr_time[track_id] < ocr_config.throttle_frames)

\* OCREngine.can_process lines 88-104; elapsed < throttle_frames / 20.0 seconds
\* is now - last < throttle_frames in units of 1/20 s
can_process(track_id, now) == Refusal(track_id, now) = "none"

\* datetime.now() advances. The clock is read at lines 99 and 124 only: time
\* that passes elsewhere is time that passes before the next visit.
Tick ==
  /\ proc.now < MaxNow
  /\ proc.pc \in {"idle", "recognize"}
  /\ proc' = [proc EXCEPT !.now = @ + 1]
  /\ UNCHANGED <<ocr_config, ocr, plates, seen, nonOcrVars>>

\* main.py lines 169-170: the next returned track, skipped when its plate is
\* locked
Visit(t) ==
  /\ proc.pc = "idle"
  /\ ocr.total_ocr_calls < MaxCalls
  /\ IF plates[t].plate_locked
       THEN /\ seen' = [seen EXCEPT !.revisited = @ \cup {t}]
            /\ proc' = proc
       ELSE /\ seen' = seen
            /\ proc' = [proc EXCEPT !.pc = "can_process", !.track_id = t,
                                    !.outcome = "none", !.result = <<>>]
  /\ UNCHANGED <<ocr_config, ocr, plates, nonOcrVars>>

\* main.py line 172: if ocr_engine.can_process(track.track_id)
CanProcess ==
  /\ proc.pc = "can_process"
  /\ IF can_process(proc.track_id, proc.now)
       THEN /\ proc' = [proc EXCEPT !.pc = "recognize"]
            /\ seen' = seen
       ELSE /\ proc' = [proc EXCEPT !.pc = "idle"]
            /\ seen' = [seen EXCEPT !.refused = Refusal(proc.track_id, proc.now)]
  /\ UNCHANGED <<ocr_config, ocr, plates, nonOcrVars>>

AdmitNoStamp ==
  /\ proc.pc = "recognize"
  /\ IF can_process(proc.track_id, proc.now)
       THEN /\ ocr' = [ocr EXCEPT !.active_ocr_count = @ + 1,
                                  !.total_ocr_calls = @ + 1]
            /\ proc' = [proc EXCEPT !.pc = "oracle"]
            /\ seen' = seen
       ELSE /\ ocr' = ocr
            /\ proc' = [proc EXCEPT !.pc = "idle"]
            /\ seen' = [seen EXCEPT !.refused = Refusal(proc.track_id, proc.now)]
  /\ UNCHANGED <<ocr_config, plates, nonOcrVars>>

\* recognize_plate lines 119-125: the admission test again, then
\* active_ocr_count += 1; last_ocr_time[track_id] = now; total_ocr_calls += 1
Admit ==
  /\ proc.pc = "recognize"
  /\ IF can_process(proc.track_id, proc.now)
       THEN /\ ocr' = [ocr EXCEPT
                         !.active_ocr_count = @ + 1,
                         !.last_ocr_time =
                            [t \in DOMAIN @ \cup {proc.track_id} |->
                               IF t = proc.track_id THEN proc.now ELSE @[t]],
                         !.total_ocr_calls = @ + 1]
            /\ proc' = [proc EXCEPT !.pc = "oracle"]
            /\ seen' = seen
       ELSE /\ ocr' = ocr
            /\ proc' = [proc EXCEPT !.pc = "idle"]
            /\ seen' = [seen EXCEPT !.refused = Refusal(proc.track_id, proc.now)]
  /\ UNCHANGED <<ocr_config, plates, nonOcrVars>>

\* recognize_plate lines 127-181: no ROI (return None); no result, no text, a
\* short text or an exception (failed_reads += 1; return None); a reading
\* (successful_reads += 1)
Recognize ==
  /\ proc.pc = "oracle"
  /\ \E outcome \in Outcomes :
       /\ ocr' = [ocr EXCEPT
                    !.failed_reads =
                       IF outcome \in {"no_result", "no_text", "short_text", "raised"}
                         THEN @ + 1 ELSE @,
                    !.successful_reads = IF outcome = "read" THEN @ + 1 ELSE @]
       /\ \E text \in Texts : \E confidence \in Confidences :
            proc' = [proc EXCEPT
                       !.pc = "finally", !.outcome = outcome,
                       !.result = IF outcome = "read"
                                    THEN <<[text |-> text, confidence |-> confidence]>>
                                    ELSE <<>>]
  /\ UNCHANGED <<ocr_config, plates, seen, nonOcrVars>>

FinallyLeaks ==
  /\ proc.pc = "finally"
  /\ ocr' = [ocr EXCEPT !.active_ocr_count =
                 IF proc.outcome = "raised" THEN @ ELSE @ - 1]
  /\ proc' = [proc EXCEPT !.pc = "result"]
  /\ UNCHANGED <<ocr_config, plates, seen, nonOcrVars>>

\* recognize_plate lines 183-184: finally: active_ocr_count -= 1
Finally ==
  /\ proc.pc = "finally"
  /\ ocr' = [ocr EXCEPT !.active_ocr_count = @ - 1]
  /\ proc' = [proc EXCEPT !.pc = "result"]
  /\ UNCHANGED <<ocr_config, plates, seen, nonOcrVars>>

\* Track.add_plate_reading (core/events.py 141-148)
add_plate_reading(plate, text, confidence) ==
  IF ~plate.plate_locked
    THEN [plate EXCEPT !.plate_readings =
                          Append(@, [text |-> text, confidence |-> confidence])]
    ELSE plate

finalize_plateNoText(plate, text, confidence) ==
  [plate EXCEPT !.plate_confidence = confidence, !.plate_locked = TRUE]

\* Track.finalize_plate (core/events.py 150-154)
finalize_plate(plate, text, confidence) ==
  [plate EXCEPT !.plate_text = text, !.plate_confidence = confidence,
                !.plate_locked = TRUE]

\* main.py lines 177-191: a reading is added to the track; with
\* fusion_min_samples readings the fused reading is locked
UseResult ==
  /\ proc.pc = "result"
  /\ LET t == proc.track_id
         read == IF proc.result = <<>> THEN plates[t]
                 ELSE add_plate_reading(plates[t], proc.result[1].text,
                                        proc.result[1].confidence)
         fused == IF proc.result # <<>>
                     /\ Len(read.plate_readings) >= ocr_config.fusion_min_samples
                    THEN fuse_readings(read.plate_readings, ocr_config.fusion_min_samples)
                    ELSE <<>>
         plate == IF fused # <<>>
                    THEN finalize_plate(read, fused[1].text, fused[1].confidence)
                    ELSE read
     IN  /\ plates' = [plates EXCEPT ![t] = plate]
         /\ seen' = IF fused # <<>> THEN [seen EXCEPT !.locked_as[t] = <<plate>>]
                                    ELSE seen
  /\ proc' = [proc EXCEPT !.pc = "idle"]
  /\ UNCHANGED <<ocr_config, ocr, nonOcrVars>>

NextOcr ==
  \/ Tick
  \/ \E t \in OcrTracks : Visit(t)
  \/ CanProcess
  \/ Admit
  \/ Recognize
  \/ Finally
  \/ UseResult

IdleOcr ==
  /\ ocr_config = [enabled |-> FALSE, throttle_frames |-> 10, max_concurrent |-> 2,
                   fusion_min_samples |-> 3]
  /\ ocr = NewEngine(FALSE)
  /\ plates = <<>>
  /\ proc = [pc |-> "idle", track_id |-> 0, now |-> 0, outcome |-> "none",
             result |-> <<>>]
  /\ seen = NewSeen

(***************************************************************************)
(* ocr/engine.py: one call of OCREngine.fuse_readings                      *)
(***************************************************************************)
\* bounds: up to MaxFuseReadings readings, fusion_min_samples in
\* 1..MaxFuseMin
MaxFuseReadings == 5
MaxFuseMin == 3

\* the texts ABC1234, ABC1Z34, ABCZZZ4 and XYZ0000, a letter as its place in
\* the alphabet and a digit d as 30 + d
ABC1234 == <<1, 2, 3, 31, 32, 33, 34>>
ABC1Z34 == <<1, 2, 3, 31, 26, 33, 34>>
ABCZZZ4 == <<1, 2, 3, 26, 26, 26, 34>>
XYZ0000 == <<24, 25, 26, 30, 30, 30, 30>>

\* the readings a track may hold, confidences in percent
FuseReadings ==
  {[text |-> ABC1234, confidence |-> 90], [text |-> ABC1Z34, confidence |-> 60],
   [text |-> ABCZZZ4, confidence |-> 60], [text |-> XYZ0000, confidence |-> 90]}

InitFuse ==
  /\ \E n \in 0..MaxFuseReadings :
       fuse \in [readings : [1..n -> FuseReadings],
                 fusion_min_samples : 1..MaxFuseMin,
                 called : {FALSE}, result : {<<>>}]

\* fused = ocr_engine.fuse_readings(track.plate_readings)
FuseCall ==
  /\ ~fuse.called
  /\ fuse' = [fuse EXCEPT !.called = TRUE,
                          !.result = fuse_readings(fuse.readings,
                                                   fuse.fusion_min_samples)]
  /\ UNCHANGED nonFusVars

IdleFuse ==
  fuse = [readings |-> <<>>, fusion_min_samples |-> 3, called |-> FALSE,
          result |-> <<>>]

(***************************************************************************)
(* events/engine.py: EventEngine                                           *)
(***************************************************************************)
\* bounds of the event model: min_dwell_time in 1..MaxDwell and dedup_window
\* in 1..MaxDedup seconds, the clock runs to MaxClock seconds
MaxDwell == 1
MaxDedup == 1
MaxClock == 3

\* the tracks the tracker hands over, by track_id
VehicleIds == {1, 2}

\* EventConfig.entry_y_threshold and exit_y_threshold, in hundredths of the
\* frame height
entry_y_threshold == 60
exit_y_threshold == 90

\* the normalized positions of a track's centre that a call may see, in
\* hundredths, and its time_since_update
Positions == {60, 90, 91}
Lags == {5, 6}

\* the texts the plate of track t may be locked to: the two tracks may lock
\* the same text or different ones
PlateTexts(t) == IF t = 1 THEN {<<1, 2, 3>>} ELSE {<<1, 2, 3>>, <<5, 6, 7>>}

\* EventEngine.__init__ lines 27-35
NewEventEngine ==
  [track_states |-> <<>>, recent_plates |-> <<>>, total_entries |-> 0,
   total_exits |-> 0]

\* the last step was not a call of process_track
NoProcessCall == [track_id |-> 0, time_since_update |-> 0, event |-> <<>>]

\* self.track_states.get(track.track_id, VehicleState.OUTSIDE)
StateOf(engine, track_id) ==
  IF track_id \in DOMAIN engine.track_states THEN engine.track_states[track_id]
  ELSE "outside"

_is_duplicate_entryNever(engine, track, now) == FALSE

\* EventEngine._is_duplicate_entry lines 117-133
_is_duplicate_entry(engine, track, now) ==
  IF track.plate_text = <<>> THEN FALSE
  ELSE /\ track.plate_text \in DOMAIN engine.recent_plates
       /\ now - engine.recent_plates[track.plate_text] < event_config.dedup_window

_is_duplicate_exitNever(engine, track, now) == FALSE

\* EventEngine._is_duplicate_exit lines 135-138
_is_duplicate_exit(engine, track, now) == _is_duplicate_entry(engine, track, now)

\* lines 157-159 and 187-189: if track.plate_text:
\* self.recent_plates[track.plate_text] = datetime.now()
Remember(engine, track, now) ==
  IF track.plate_text = <<>> THEN engine
  ELSE [engine EXCEPT !.recent_plates =
          [p \in DOMAIN @ \cup {track.plate_text} |->
             IF p = track.plate_text THEN now ELSE @[p]]]

\* EventEngine._create_entry_event lines 140-161
_create_entry_event(engine, track, now) ==
  [event |-> <<[type |-> "entry", track_id |-> track.track_id,
                plate_text |-> track.plate_text, timestamp |-> now]>>,
   engine |-> Remember(engine, track, now)]

_create_exit_eventSinceUpdate(engine, track, now) ==
  [event |-> <<[type |-> "exit", track_id |-> track.track_id,
                plate_text |-> track.plate_text,
                entry_time |-> now - track.time_since_update, exit_time |-> now,
                duration |-> track.time_since_update, timestamp |-> now]>>,
   engine |-> Remember(engine, track, now)]

\* EventEngine._create_exit_event lines 163-191
_create_exit_event(engine, track, now) ==
  [event |-> <<[type |-> "exit", track_id |-> track.track_id,
                plate_text |-> track.plate_text,
                entry_time |-> track.first_seen, exit_time |-> now,
                duration |-> now - track.first_seen, timestamp |-> now]>>,
   engine |-> Remember(engine, track, now)]

\* what a branch of the state machine leaves: the new state, the event (none
\* is <<>>) and the engine
Stay(engine, state) == [new_state |-> state, event |-> <<>>, engine |-> engine]

\* lines 61-65
FromOutside(engine, track, normalized_y, now) ==
  IF normalized_y > entry_y_threshold THEN Stay(engine, "approaching")
  ELSE Stay(engine, "outside")

FromApproachingNoDwell(engine, track, normalized_y, now) ==
  IF event_config.require_plate_for_entry /\ ~track.plate_locked
    THEN Stay(engine, "approaching")
  ELSE IF ~_is_duplicate_entry(engine, track, now)
    THEN LET made == _create_entry_event(engine, track, now)
         IN  [new_state |-> "inside", event |-> made.event,
              engine |-> [made.engine EXCEPT !.total_entries = @ + 1]]
  ELSE Stay(engine, "approaching")

FromApproachingCountsAll(engine, track, normalized_y, now) ==
  IF now - track.first_seen >= event_config.min_dwell_time
    THEN IF event_config.require_plate_for_entry /\ ~track.plate_locked
           THEN Stay(engine, "approaching")
         ELSE IF ~_is_duplicate_entry(engine, track, now)
           THEN LET made == _create_entry_event(engine, track, now)
                IN  [new_state |-> "inside", event |-> made.event,
                     engine |-> [made.engine EXCEPT !.total_entries = @ + 1]]
         ELSE Stay([engine EXCEPT !.total_entries = @ + 1], "approaching")
  ELSE Stay(engine, "approaching")

FromApproachingStays(engine, track, normalized_y, now) ==
  IF now - track.first_seen >= event_config.min_dwell_time
    THEN IF event_config.require_plate_for_entry /\ ~track.plate_locked
           THEN Stay(engine, "approaching")
         ELSE IF ~_is_duplicate_entry(engine, track, now)
           THEN LET made == _create_entry_event(engine, track, now)
                IN  [new_state |-> "approaching", event |-> made.event,
                     engine |-> [made.engine EXCEPT !.total_entries = @ + 1]]
         ELSE Stay(engine, "approaching")
  ELSE Stay(engine, "approaching")

\* lines 67-84
FromApproaching(engine, track, normalized_y, now) ==
  IF now - track.first_seen >= event_config.min_dwell_time
    THEN IF event_config.require_plate_for_entry /\ ~track.plate_locked
           THEN Stay(engine, "approaching")
         ELSE IF ~_is_duplicate_entry(engine, track, now)
           THEN LET made == _create_entry_event(engine, track, now)
                IN  [new_state |-> "inside", event |-> made.event,
                     engine |-> [made.engine EXCEPT !.total_entries = @ + 1]]
         ELSE Stay(engine, "approaching")
  ELSE Stay(engine, "approaching")

FromInsideOrBack(engine, track, normalized_y, now) ==
  IF normalized_y > exit_y_threshold THEN Stay(engine, "exiting")
  ELSE IF normalized_y > entry_y_threshold THEN Stay(engine, "inside")
  ELSE Stay(engine, "approaching")

\* lines 86-90
FromInside(engine, track, normalized_y, now) ==
  IF normalized_y > exit_y_threshold THEN Stay(engine, "exiting")
  ELSE Stay(engine, "inside")

FromExitingAtFive(engine, track, normalized_y, now) ==
  IF track.time_since_update >= 5
    THEN IF event_config.require_plate_for_exit /\ ~track.plate_locked
           THEN Stay(engine, "exiting")
         ELSE IF ~_is_duplicate_exit(engine, track, now)
           THEN LET made == _create_exit_event(engine, track, now)
                IN  [new_state |-> "logged", event |-> made.event,
                     engine |-> [made.engine EXCEPT !.total_exits = @ + 1]]
         ELSE Stay(engine, "exiting")
  ELSE Stay(engine, "exiting")

\* lines 92-108
FromExiting(engine, track, normalized_y, now) ==
  IF track.time_since_update > 5
    THEN IF event_config.require_plate_for_exit /\ ~track.plate_locked
           THEN Stay(engine, "exiting")
         ELSE IF ~_is_duplicate_exit(engine, track, now)
           THEN LET made == _create_exit_event(engine, track, now)
                IN  [new_state |-> "logged", event |-> made.event,
                     engine |-> [made.engine EXCEPT !.total_exits = @ + 1]]
         ELSE Stay(engine, "exiting")
  ELSE Stay(engine, "exiting")

\* EventEngine.process_track lines 55-115 on the track with its centre at
\* normalized_y, at time now: the new state, the event and the engine
process_track(engine, track, normalized_y, now) ==
  LET current_state == StateOf(engine, track.track_id)
      out == CASE current_state = "outside" ->
                    FromOutside(engine, track, normalized_y, now)
               [] current_state = "approaching" ->
                    FromApproaching(engine, track, normalized_y, now)
               [] current_state = "inside" ->
                    FromInside(engine, track, normalized_y, now)
               [] current_state = "exiting" ->
                    FromExiting(engine, track, normalized_y, now)
               [] OTHER -> Stay(engine, current_state)
  IN  IF out.new_state # current_state
        THEN [out EXCEPT !.engine.track_states =
                [id \in DOMAIN @ \cup {track.track_id} |->
                   IF id = track.track_id THEN out.new_state ELSE @[id]]]
        ELSE out

\* EventEngine.cleanup_old_entries lines 193-204
cleanup_old_entries(engine, now) ==
  [engine EXCEPT !.recent_plates =
     [p \in {q \in DOMAIN @ : ~(@[q] < now - event_config.dedup_window * 2)} |-> @[p]]]

\* a track the tracker has created (tracking/engine.py 265-277: first_seen =
\* datetime.now()); no plate yet
NewVehicle(now) ==
  [first_seen |-> now, plate_text |-> <<>>, plate_locked |-> FALSE,
   vehicle_state |-> "outside"]

\* the Track object handed to process_track
TrackOf(track_id, time_since_update) ==
  [track_id |-> track_id, first_seen |-> vehicles[track_id].first_seen,
   time_since_update |-> time_since_update,
   plate_locked |-> vehicles[track_id].plate_locked,
   plate_text |-> vehicles[track_id].plate_text]

InitEvents ==
  /\ event_config \in [min_dwell_time : 1..MaxDwell, dedup_window : 1..MaxDedup,
                       require_plate_for_entry : BOOLEAN,
                       require_plate_for_exit : BOOLEAN]
  /\ event_engine = NewEventEngine
  /\ vehicles = <<>>
  /\ clock = 0
  /\ call = NoProcessCall
  /\ emitted = {}

\* datetime.now() advances
ClockTick ==
  /\ clock < MaxClock
  /\ clock' = clock + 1
  /\ call' = NoProcessCall
  /\ UNCHANGED <<event_config, event_engine, vehicles, emitted, nonEvtVars>>

\* the tracker creates a track
Arrive ==
  /\ Len(vehicles) + 1 \in VehicleIds
  /\ vehicles' = Append(vehicles, NewVehicle(clock))
  /\ call' = NoProcessCall
  /\ UNCHANGED <<event_config, event_engine, clock, emitted, nonEvtVars>>

\* main.py 186-191: track.finalize_plate(fused['text'], fused['confidence'])
LockPlate(t) ==
  /\ ~vehicles[t].plate_locked
  /\ \E text \in PlateTexts(t) :
       vehicles' = [vehicles EXCEPT ![t].plate_text = text, ![t].plate_locked = TRUE]
  /\ call' = NoProcessCall
  /\ UNCHANGED <<event_config, event_engine, clock, emitted, nonEvtVars>>

\* main.py 196-201: event = event_engine.process_track(track, frame_height);
\* if event: self.database.insert_event(event)
ProcessTrack(t) ==
  /\ \E normalized_y \in Positions : \E time_since_update \in Lags :
       LET track == TrackOf(t, time_since_update)
       IN  \E out \in {process_track(event_engine, track, normalized_y, clock)} :
             /\ event_engine' = out.engine
             /\ vehicles' = [vehicles EXCEPT ![t].vehicle_state = out.new_state]
             /\ call' = [track_id |-> t, time_since_update |-> time_since_update,
                         event |-> out.event]
             /\ emitted' = emitted \cup {out.event[i] : i \in 1..Len(out.event)}
  /\ UNCHANGED <<event_config, clock, nonEvtVars>>

\* main.py 141-142, 204-207: engine.cleanup_old_entries()
Cleanup ==
  /\ event_engine' = cleanup_old_entries(event_engine, clock)
  /\ call' = NoProcessCall
  /\ UNCHANGED <<event_config, vehicles, clock, emitted, nonEvtVars>>

NextEvents ==
  \/ ClockTick
  \/ Arrive
  \/ \E t \in 1..Len(vehicles) : LockPlate(t)
  \/ \E t \in 1..Len(vehicles) : ProcessTrack(t)
  \/ Cleanup

IdleEvents ==
  /\ event_config = [min_dwell_time |-> 1, dedup_window |-> 60,
                     require_plate_for_entry |-> FALSE,
                     require_plate_for_exit |-> TRUE]
  /\ event_engine = NewEventEngine
  /\ vehicles = <<>>
  /\ clock = 0
  /\ call = NoProcessCall
  /\ emitted = {}

(***************************************************************************)
(* main.py: ANPRPipeline._process_loop and _process_frame for one camera   *)
(***************************************************************************)
\* bounds of the pipeline model: the frames the processor takes from the bus,
\* and the seconds that pass meanwhile
MaxPipeFrames == 10
MaxPipeClock == 1

\* the track ids the tracker may assign
PipeTrackIds == {1, 2}

\* the period of _periodic_cleanup, in processed frames
cleanup_period == 1000

\* frame.shape[0]
frame_height == 100

\* boxes with the centre at 0.70 and 0.92 of the frame height: both above
\* entry_y_threshold, the second above exit_y_threshold; their IoU is 0.12
PipeBoxes == {<<0, 50, 10, 90>>, <<0, 84, 10, 100>>}

\* what the detector returns for one frame: nothing, or one box
PipeDetections == {<<>>} \cup {<<b>> : b \in PipeBoxes}

\* TrackingConfig.min_hits and max_lost_frames of the camera's tracker
PipeMinHits == {2}
PipeMaxLost == {5, 6}

\* process_track lines 51-53, in hundredths (exact for PipeBoxes)
NormalizedY(bbox, height) ==
  IF height > 0 THEN ((bbox[2] + bbox[4]) * 100) \div (2 * height) ELSE 0

\* main.py 167-191: a returned Confirmed track whose plate is not locked may
\* get its plate locked when the OCR engine admits it (can_process is false
\* for every track while OCR is disabled); fused[t] is the text track t is
\* locked to, <<>> for the tracks left as they are
LockSome(vehs, fused) ==
  [t \in DOMAIN vehs |->
     IF t \in DOMAIN fused /\ fused[t] # <<>>
       THEN [vehs[t] EXCEPT !.plate_text = fused[t], !.plate_locked = TRUE]
       ELSE vehs[t]]

\* main.py 194-201: process_track for every returned track, in the order of
\* the tracker's dict; acc is the engine, the tracks and the events so far
RECURSIVE FeedTracks(_, _, _)
FeedTracks(ids, trks, acc) ==
  IF ids = <<>> THEN acc
  ELSE LET t == Head(ids)
           track == [track_id |-> t, first_seen |-> acc.vehicles[t].first_seen,
                     time_since_update |-> trks[t].time_since_update,
                     plate_locked |-> acc.vehicles[t].plate_locked,
                     plate_text |-> acc.vehicles[t].plate_text]
           out == process_track(acc.engine, track,
                                NormalizedY(trks[t].bbox, frame_height), clock)
       IN  FeedTracks(Tail(ids), trks,
                      [engine |-> out.engine,
                       vehicles |-> [acc.vehicles EXCEPT ![t].vehicle_state = out.new_state],
                       events |-> acc.events \cup {out.event[i] : i \in 1..Len(out.event)}])

\* the history `unseen` after a frame in which the tracks `matched` got a
\* detection and that left the engine `engine`
Unseen(engine, matched, n) ==
  [t \in 1..n |->
     IF StateOf(engine, t) = "exiting" /\ StateOf(event_engine, t) # "exiting" THEN 0
     ELSE IF t \notin DOMAIN pipeline.unseen \/ t \in matched THEN -1
     ELSE IF pipeline.unseen[t] < 0 THEN -1
     ELSE Min(pipeline.unseen[t] + 1, 6)]

\* _process_loop lines 135-142: processed_frames += 1, and the periodic
\* cleanup of the engine `engine` that _process_frame left
AfterFrame(engine, matched, n) ==
  /\ event_engine' = IF (pipeline.processed_frames + 1) % cleanup_period = 0
                       THEN cleanup_old_entries(engine, clock) ELSE engine
  /\ pipeline' = [processed_frames |-> pipeline.processed_frames + 1,
                  unseen |-> Unseen(engine, matched, n)]

\* _process_frame returns at line 155: no detections
EmptyFrame ==
  /\ pipeline.processed_frames < MaxPipeFrames
  /\ AfterFrame(event_engine, {}, Len(vehicles))
  /\ UNCHANGED <<event_config, vehicles, clock, call, emitted, trkVars, nonPipVars>>

\* one frame with detections through _process_frame: tracker.update, the OCR
\* step, process_track for every returned track, insert_event
ProcessFrame ==
  /\ pipeline.processed_frames < MaxPipeFrames
  /\ \E detections \in PipeDetections \ {<<>>} :
       \E predicted \in [DOMAIN tracks -> PipeBoxes] :
         \E t1 \in {Predict(tracks, predicted)} :
           \E mt \in {Match(t1, detections, tracking.iou_threshold)} :
             /\ \A k \in 1..Cardinality(mt.unmatched_dets) :
                  next_track_id + k - 1 \in PipeTrackIds
             /\ Update(t1, mt, detections)
             /\ LET created == [k \in 1..(next_track_id' - next_track_id) |->
                                  NewVehicle(clock)]
                    ids == SortedIds(last'.returned)
                    lockable == {t \in last'.returned :
                                   /\ tracks'[t].state = "confirmed"
                                   /\ ~(vehicles \o created)[t].plate_locked
                                   /\ ocr_config.enabled /\ ocr.is_loaded}
                IN  \E fused \in [lockable -> {<<>>} \cup PlateTexts(2)] :
                      \E out \in {FeedTracks(ids, tracks',
                                    [engine |-> event_engine,
                                     vehicles |-> LockSome(vehicles \o created, fused),
                                     events |-> {}])} :
                        /\ vehicles' = out.vehicles
                        /\ emitted' = emitted \cup out.events
                        /\ AfterFrame(out.engine, {p[1] : p \in mt.matched},
                                      Len(vehicles \o created))
  /\ UNCHANGED <<tracking, event_config, clock, call, nonPipVars>>

InitPipeline ==
  /\ tracking \in [min_hits : PipeMinHits, max_lost_frames : PipeMaxLost,
                   iou_threshold : {iou_threshold_default}]
  /\ tracks = <<>>
  /\ kalman_filters = {}
  /\ next_track_id = 1
  /\ last = NoCall
  /\ event_config \in [min_dwell_time : {1}, dedup_window : {60},
                       require_plate_for_entry : {FALSE},
                       require_plate_for_exit : {FALSE}]
  /\ event_engine = NewEventEngine
  /\ vehicles = <<>>
  /\ clock = 0
  /\ call = NoProcessCall
  /\ emitted = {}
  /\ pipeline = [processed_frames |-> 0, unseen |-> <<>>]

\* datetime.now() advances between two frames
PipeTick ==
  /\ clock < MaxPipeClock
  /\ clock' = clock + 1
  /\ UNCHANGED <<event_config, event_engine, vehicles, call, emitted, trkVars,
                 pipVars, nonPipVars>>

NextPipeline ==
  \/ PipeTick
  \/ EmptyFrame
  \/ ProcessFrame

IdlePipeline == pipeline = [processed_frames |-> 0, unseen |-> <<>>]

(***************************************************************************)
(* tracking/engine.py: iou on any two boxes                                *)
(***************************************************************************)
\* largest coordinate of a box
MaxCoord == 3

\* boxes [x1, y1, x2, y2] with integer corners, positive width and height
IouBoxes ==
  {b \in (0..MaxCoord) \X (0..MaxCoord) \X (0..MaxCoord) \X (0..MaxCoord) :
     b[1] < b[3] /\ b[2] < b[4]}

InitIou ==
  iou_call \in [bbox1 : IouBoxes, bbox2 : IouBoxes, called : {FALSE},
                forth : {<<0, 1>>}, back : {<<0, 1>>}]

\* iou(bbox1, bbox2) and iou(bbox2, bbox1)
IouCall ==
  /\ ~iou_call.called
  /\ iou_call' = [iou_call EXCEPT !.called = TRUE,
                                  !.forth = iou(iou_call.bbox1, iou_call.bbox2),
                                  !.back = iou(iou_call.bbox2, iou_call.bbox1)]
  /\ UNCHANGED nonIouVars

IdleIou ==
  iou_call = [bbox1 |-> <<0, 0, 1, 1>>, bbox2 |-> <<0, 0, 1, 1>>,
              called |-> FALSE, forth |-> <<0, 1>>, back |-> <<0, 1>>]

(***************************************************************************)
(* database/manager.py: DatabaseManager                                    *)
(***************************************************************************)
\* records the callers insert while the writer runs and the database works
MaxDbInserts == 11
\* records the callers insert when the database may fail and be read
MaxDbFaultInserts == 3
\* records the callers insert on top of a backlog of maxsize - 1
MaxDbBacklogInserts == 3
\* the clock stops here, in quarters of a second
MaxDbClock == 4

\* Queue(maxsize=1000)
write_queue_maxsize == 1000
\* len(batch) >= 10
batch_size == 10
\* write_queue.get(timeout=0.5), in quarters of a second
get_timeout == 2
\* (datetime.now() - last_commit).total_seconds() >= 0.5, in quarters
commit_interval == 2

\* the 'type' of a write operation
OpTypes == {"insert_event", "insert_track", "insert_camera"}

\* the n-th record handed to an insert method
Record(n, type) == [id |-> n, type |-> type]

\* sqlite3.connect and _create_schema: an open connection, no rows, no open
\* transaction
NewConn == [open |-> TRUE, committed |-> {}, pending |-> {}]

\* _write_worker lines 149-150: batch = []; last_commit = datetime.now()
NewWriter(now) ==
  [pc |-> "test", batch |-> <<>>, last_commit |-> now, deadline |-> 0, i |-> 0,
   final |-> FALSE]

\* DatabaseManager.__init__ and _initialize with the writer thread started
NewDatabase(write_queue, now) ==
  [write_queue |-> write_queue, is_running |-> TRUE, total_writes |-> 0,
   failed_writes |-> 0, conn |-> NewConn, writer |-> NewWriter(now),
   closer |-> "idle"]

\* history: the ids of the records a put refused, the batches handed to
\* _execute_batch, the ids counted in failed_writes, when the last batch of
\* the loop was done, the ids put before close() was called, and the rows the
\* last get_recent_events returned
NewHistory ==
  [refused |-> {}, flushed |-> {}, failed |-> {}, flushed_at |-> 0,
   before_close |-> {}, read |-> {}]

\* what surrounds the manager:
\*  stalled    the writer thread is not scheduled
\*  inserts    how many records the callers insert
\*  types      the insert methods the callers use
\*  faulty     an INSERT or the COMMIT may raise
\*  readers    get_recent_events is called
\*  closes     close() is called
\*  horizon    how far the clock is followed: at the horizon time is no
\*             longer counted and a get on the empty queue times out at once
DbScenarios ==
  {[name |-> "backlog", stalled |-> TRUE, inserts |-> MaxDbBacklogInserts,
    types |-> OpTypes, faulty |-> FALSE, readers |-> FALSE, closes |-> FALSE,
    horizon |-> MaxDbClock],
   [name |-> "batching", stalled |-> FALSE, inserts |-> MaxDbInserts,
    types |-> {"insert_event"}, faulty |-> FALSE, readers |-> FALSE,
    closes |-> TRUE, horizon |-> MaxDbClock],
   [name |-> "faults", stalled |-> FALSE, inserts |-> MaxDbFaultInserts,
    types |-> {"insert_event", "insert_track"}, faulty |-> TRUE,
    readers |-> TRUE, closes |-> TRUE, horizon |-> MaxDbClock]}

\* the events the processor has put while the writer was not scheduled
Backlog == [n \in 1..(write_queue_maxsize - 1) |-> Record(n, "insert_event")]

InitDatabase ==
  \E s \in DbScenarios :
    /\ database = NewDatabase(IF s.name = "backlog" THEN Backlog ELSE <<>>, 0)
    /\ dbenv = [scenario |-> s, now |-> 0, puts |-> 0,
                next_id |-> Len(database.write_queue) + 1,
                history |-> NewHistory]

\* datetime.now() advances; a get that waits on the empty queue returns when
\* its timeout has passed
DbTick ==
  /\ dbenv.now < dbenv.scenario.horizon
  /\ ~(/\ database.writer.pc = "get" /\ database.write_queue = <<>>
       /\ dbenv.now >= database.writer.deadline)
  /\ dbenv' = [dbenv EXCEPT !.now = @ + 1]
  /\ UNCHANGED <<database, nonDbVars>>

\* write_queue.put_nowait({'type': ..., 'data': ...}); except:
\* logger.warning (lines 266-272, 276-282, 286-292)
put_nowait(type) ==
  /\ dbenv.puts < dbenv.scenario.inserts
  /\ type \in dbenv.scenario.types
  /\ IF Len(database.write_queue) < write_queue_maxsize
       THEN /\ database' = [database EXCEPT !.write_queue =
                              Append(@, Record(dbenv.next_id, type))]
            /\ dbenv' = [dbenv EXCEPT !.next_id = @ + 1, !.puts = @ + 1]
       ELSE /\ database' = database
            /\ dbenv' = [dbenv EXCEPT !.next_id = @ + 1, !.puts = @ + 1,
                                      !.history.refused = @ \cup {dbenv.next_id}]

\* insert_event, insert_track, insert_camera lines 264-292, called by any
\* thread
Put(type) ==
  /\ put_nowait(type)
  /\ UNCHANGED nonDbVars

\* the ids of the records of a batch
Ids(batch) == {batch[k].id : k \in 1..Len(batch)}

\* line 152: while self.is_running; the get that follows waits until
\* deadline at most
WriterTest ==
  /\ ~dbenv.scenario.stalled
  /\ database.writer.pc = "test"
  /\ database' = IF database.is_running
                   THEN [database EXCEPT !.writer.pc = "get",
                                         !.writer.deadline =
                                            Min(dbenv.now + get_timeout,
                                                dbenv.scenario.horizon)]
                   ELSE [database EXCEPT !.writer.pc = "flush"]
  /\ UNCHANGED <<dbenv, nonDbVars>>

\* lines 155-159: write_op = self.write_queue.get(timeout=0.5);
\* batch.append(write_op); except: pass
WriterGet ==
  /\ database.writer.pc = "get"
  /\ IF database.write_queue # <<>>
       THEN database' = [database EXCEPT
                           !.write_queue = Tail(@),
                           !.writer.batch = Append(@, Head(database.write_queue)),
                           !.writer.pc = "decide"]
       ELSE /\ dbenv.now >= database.writer.deadline
            /\ database' = [database EXCEPT !.writer.pc = "decide"]
  /\ UNCHANGED <<dbenv, nonDbVars>>

\* _execute_batch is entered with the batch: cursor = self.conn.cursor()
Enter(final) ==
  /\ database' = [database EXCEPT !.writer.pc = "execute", !.writer.i = 1,
                                  !.writer.final = final]
  /\ dbenv' = [dbenv EXCEPT !.history.flushed = @ \cup {Ids(database.writer.batch)}]

WriterDecideOver ==
  /\ database.writer.pc = "decide"
  /\ LET batch == database.writer.batch
         should_commit ==
           \/ Len(batch) > batch_size
           \/ dbenv.now - database.writer.last_commit >= commit_interval
     IN  IF batch # <<>> /\ should_commit
           THEN Enter(FALSE)
           ELSE /\ database' = [database EXCEPT !.writer.pc = "test"]
                /\ dbenv' = dbenv
  /\ UNCHANGED nonDbVars

\* lines 162-168: should_commit; if batch and should_commit:
\* self._execute_batch(batch)
WriterDecide ==
  /\ database.writer.pc = "decide"
  /\ LET batch == database.writer.batch
         should_commit ==
           \/ Len(batch) >= batch_size
           \/ dbenv.now - database.writer.last_commit >= commit_interval
     IN  IF batch # <<>> /\ should_commit
           THEN Enter(FALSE)
           ELSE /\ database' = [database EXCEPT !.writer.pc = "test"]
                /\ dbenv' = dbenv
  /\ UNCHANGED nonDbVars

\* lines 175-179: the final flush: if batch: self._execute_batch(batch)
WriterFlush ==
  /\ database.writer.pc = "flush"
  /\ IF database.writer.batch # <<>>
       THEN Enter(TRUE)
       ELSE /\ database' = [database EXCEPT !.writer.pc = "stopped"]
            /\ dbenv' = dbenv
  /\ UNCHANGED nonDbVars

\* _execute_batch has returned: in the loop, lines 169-170: batch.clear();
\* last_commit = datetime.now(); after the final flush the thread ends
Return(db) ==
  IF db.writer.final THEN [db EXCEPT !.writer.pc = "stopped"]
  ELSE [db EXCEPT !.writer.pc = "test", !.writer.batch = <<>>,
                  !.writer.last_commit = dbenv.now]

\* lines 186-194: the INSERT of one operation of the batch, in the
\* connection's open transaction; it may raise
ExecuteOp ==
  /\ database.writer.pc = "execute"
  /\ database.writer.i <= Len(database.writer.batch)
  /\ \/ database' = [database EXCEPT
                        !.conn.pending = @ \cup {database.writer.batch[database.writer.i]},
                        !.writer.i = @ + 1]
     \/ /\ dbenv.scenario.faulty
        /\ database' = [database EXCEPT !.writer.pc = "rollback"]
  /\ UNCHANGED <<dbenv, nonDbVars>>

CommitCountsOne ==
  /\ database.writer.pc = "execute"
  /\ database.writer.i > Len(database.writer.batch)
  /\ \/ /\ database' = Return([database EXCEPT
                                  !.conn.committed = @ \cup database.conn.pending,
                                  !.conn.pending = {},
                                  !.total_writes = @ + 1])
        /\ dbenv' = [dbenv EXCEPT !.history.flushed_at =
                        IF database.writer.final THEN @ ELSE dbenv.now]
     \/ /\ dbenv.scenario.faulty
        /\ database' = [database EXCEPT !.writer.pc = "rollback"]
        /\ dbenv' = dbenv
  /\ UNCHANGED nonDbVars

\* lines 196-197: self.conn.commit(); self.total_writes += len(batch); the
\* commit may raise
Commit ==
  /\ database.writer.pc = "execute"
  /\ database.writer.i > Len(database.writer.batch)
  /\ \/ /\ database' = Return([database EXCEPT
                                  !.conn.committed = @ \cup database.conn.pending,
                                  !.conn.pending = {},
                                  !.total_writes = @ + Len(database.writer.batch)])
        /\ dbenv' = [dbenv EXCEPT !.history.flushed_at =
                        IF database.writer.final THEN @ ELSE dbenv.now]
     \/ /\ dbenv.scenario.faulty
        /\ database' = [database EXCEPT !.writer.pc = "rollback"]
        /\ dbenv' = dbenv
  /\ UNCHANGED nonDbVars

\* lines 199-202: except: self.conn.rollback();
\* self.failed_writes += len(batch)
Rollback ==
  /\ database.writer.pc = "rollback"
  /\ database' = Return([database EXCEPT
                           !.conn.pending = {},
                           !.failed_writes = @ + Len(database.writer.batch)])
  /\ dbenv' = [dbenv EXCEPT
                 !.history.failed = @ \cup Ids(database.writer.batch),
                 !.history.flushed_at = IF database.writer.final THEN @ ELSE dbenv.now]
  /\ UNCHANGED nonDbVars

\* close() lines 383-384: self.is_running = False
CloseSignal ==
  /\ dbenv.scenario.closes
  /\ database.closer = "idle"
  /\ database' = [database EXCEPT !.is_running = FALSE, !.closer = "join"]
  /\ dbenv' = [dbenv EXCEPT !.history.before_close =
                  (1..(dbenv.next_id - 1)) \ dbenv.history.refused]
  /\ UNCHANGED nonDbVars

\* close() lines 385-392: self.writer_thread.join(timeout=5.0);
\* self.conn.close(). The writer waits 0.5 s at most in its get and the
\* database calls return, so the thread has ended when the join returns.
CloseJoin ==
  /\ database.closer = "join"
  /\ database.writer.pc = "stopped"
  /\ database' = [database EXCEPT !.conn.open = FALSE, !.closer = "closed"]
  /\ UNCHANGED <<dbenv, nonDbVars>>

\* the rows a SELECT on the shared connection sees: the committed rows and
\* the rows of the connection's own open transaction
Visible(conn) == conn.committed \cup conn.pending

\* get_recent_events lines 296-326 (get_events_by_plate alike): the rows of
\* events, through self.conn; [] when the query raises
get_recent_events(conn) ==
  IF conn.open THEN {r \in Visible(conn) : r.type = "insert_event"} ELSE {}

\* get_stats lines 352-377
get_stats(db) ==
  IF db.conn.open
    THEN <<[total_events |-> Cardinality(get_recent_events(db.conn)),
            total_writes |-> db.total_writes,
            failed_writes |-> db.failed_writes,
            queue_size |-> Len(db.write_queue)]>>
    ELSE <<>>

\* a caller reads the recent events
ReadEvents ==
  /\ dbenv.scenario.readers
  /\ dbenv' = [dbenv EXCEPT !.history.read = get_recent_events(database.conn)]
  /\ UNCHANGED <<database, nonDbVars>>

NextDatabase ==
  \/ DbTick
  \/ \E type \in OpTypes : Put(type)
  \/ WriterTest
  \/ WriterGet
  \/ WriterDecide
  \/ WriterFlush
  \/ ExecuteOp
  \/ Commit
  \/ Rollback
  \/ CloseSignal
  \/ CloseJoin
  \/ ReadEvents

IdleDatabase ==
  /\ database = NewDatabase(<<>>, 0)
  /\ dbenv = [scenario |-> [name |-> "none", stalled |-> TRUE, inserts |-> 0,
                            types |-> {}, faulty |-> FALSE, readers |-> FALSE,
                            closes |-> FALSE, horizon |-> 0],
              now |-> 0, puts |-> 0, next_id |-> 1, history |-> NewHistory]

(***************************************************************************)
(* ANPRPipeline.stop (main.py) and the workers it ends: the capture        *)
(* thread of every camera, the processor thread, the database writer.      *)
(* Time is not followed here: a join or a get with a timeout may return    *)
(* at any moment; a driver read that has no more frames to give returns    *)
(* when the handle is released.                                            *)
(***************************************************************************)
\* cameras of the pipeline that is stopped
ShutdownCameras == 1
\* frames and driver failures of each camera
ShutdownReads == 1
ShutdownFaults == 1
\* events the processor hands to the database
ShutdownInserts == 1

\* ANPRPipeline after start() (lines 86-91: is_running = True,
\* stop_event.clear(), the processor thread started); stop and processor are
\* the positions of the caller of stop() and of _processing_loop
NewAnpr ==
  [is_running |-> TRUE, stop_event |-> FALSE, stop |-> "idle", processor |-> "loop"]

\* the pipeline after start(): the cameras capture, the processor and the
\* writer run, nobody has called stop() yet
InitShutdown ==
  /\ config = [cameras |-> 1..ShutdownCameras, frame_queue_size |-> 1]
  /\ env = [stalled |-> FALSE, maxReads |-> ShutdownReads,
            maxFaults |-> ShutdownFaults, canStop |-> TRUE]
  /\ frame_queue = <<>>
  /\ stream = [c \in 1..ShutdownCameras |-> NewStream]
  /\ thread = [c \in 1..ShutdownCameras |-> NewThread]
  /\ obs = [c \in 1..ShutdownCameras |-> NewObs]
  /\ database = NewDatabase(<<>>, 0)
  /\ dbenv = [scenario |-> [name |-> "shutdown", stalled |-> FALSE,
                            inserts |-> ShutdownInserts,
                            types |-> {"insert_event"}, faulty |-> FALSE,
                            readers |-> FALSE, closes |-> TRUE, horizon |-> 0],
              now |-> 0, puts |-> 0, next_id |-> 1, history |-> NewHistory]
  /\ anpr = NewAnpr

\* stop() lines 97-103: if not self.is_running: return;
\* self.is_running = False; self.stop_event.set()
PipelineStop ==
  /\ anpr.stop = "idle"
  /\ anpr.is_running
  /\ anpr' = [anpr EXCEPT !.is_running = FALSE, !.stop_event = TRUE,
                          !.stop = "cameras"]
  /\ UNCHANGED nonAnprVars

\* stop() line 106, stop_all lines 266-267: for stream in cameras: stream.stop(),
\* one camera after the other
StopCamera(c) ==
  /\ anpr.stop = "cameras"
  /\ \A d \in Cams : d < c => pcOf(d, "stop") = "done"
  /\ StopSignal(c)

\* stop_all has returned; stop() goes on to line 109
StopAllReturns ==
  /\ anpr.stop = "cameras"
  /\ \A c \in Cams : pcOf(c, "stop") = "done"
  /\ anpr' = [anpr EXCEPT !.stop = "join"]
  /\ UNCHANGED nonAnprVars

\* an exception of stream.stop() (camera/manager.py line 69) is caught neither
\* in stop_all nor in stop(): it leaves stop() at line 106
StopAllRaises ==
  /\ anpr.stop = "cameras"
  /\ \E c \in Cams : pcOf(c, "stop") = "raised"
  /\ anpr' = [anpr EXCEPT !.stop = "raised"]
  /\ UNCHANGED nonAnprVars

\* stop() lines 109-110: self.processor_thread.join(timeout=5.0)
JoinProcessor ==
  /\ anpr.stop = "join"
  /\ anpr' = [anpr EXCEPT !.stop = "close"]
  /\ UNCHANGED nonAnprVars

\* stop() line 113: self.database.close()
CloseDatabase ==
  /\ anpr.stop = "close"
  /\ CloseSignal

\* stop() line 115: close() has returned
StopReturns ==
  /\ anpr.stop = "close"
  /\ database.closer = "closed"
  /\ anpr' = [anpr EXCEPT !.stop = "done"]
  /\ UNCHANGED nonAnprVars

\* _processing_loop line 121: while self.is_running and not
\* self.stop_event.is_set()
ProcTest ==
  /\ anpr.processor = "loop"
  /\ anpr' = [anpr EXCEPT !.processor =
                 IF anpr.is_running /\ ~anpr.stop_event THEN "get" ELSE "ended"]
  /\ UNCHANGED nonAnprVars

\* lines 124-127: frame_data = self.frame_queue.get(timeout=0.1);
\* except Empty: continue
ProcGet ==
  /\ anpr.processor = "get"
  /\ IF frame_queue # <<>>
       THEN /\ frame_queue' = Tail(frame_queue)
            /\ obs' = [obs EXCEPT ![Head(frame_queue).camera_id].dequeued =
                                     Append(@, Head(frame_queue).frame_id)]
            /\ anpr' = [anpr EXCEPT !.processor = "frame"]
       ELSE /\ UNCHANGED <<frame_queue, obs>>
            /\ anpr' = [anpr EXCEPT !.processor = "loop"]
  /\ UNCHANGED <<config, env, stream, thread, trkVars, mtcVars, ocrVars,
                 fusVars, evtVars, pipVars, iouVars, dbVars>>

\* lines 129-146: _process_frame, which may hand an event to the database
\* (line 201: self.database.insert_event(event)); an exception is logged
ProcFrame ==
  /\ anpr.processor = "frame"
  /\ \/ put_nowait("insert_event")
     \/ UNCHANGED dbVars
  /\ anpr' = [anpr EXCEPT !.processor = "loop"]
  /\ UNCHANGED <<camVars, trkVars, mtcVars, ocrVars, fusVars, evtVars,
                 pipVars, iouVars>>

\* the steps of the capture thread of camera c
CaptureStep(c) ==
  \/ LoopTest(c) \/ CheckConnected(c) \/ ConnectOpen(c) \/ ConnectProbe(c)
  \/ ConnectMark(c) \/ ConnectGetProps(c) \/ ConnectEmit(c) \/ Backoff(c)
  \/ Wait(c) \/ Read(c) \/ Publish(c)
  \/ DisconnectTest(c, "capture") \/ DisconnectRelease(c, "capture")
  \/ DisconnectWas(c, "capture") \/ DisconnectClear(c, "capture")

\* the steps of the processor thread
ProcessorStep == ProcTest \/ ProcGet \/ ProcFrame

\* the steps of the writer thread
WriterStep ==
  WriterTest \/ WriterGet \/ WriterDecide \/ WriterFlush \/ ExecuteOp \/ Commit

\* the steps of the thread that calls stop()
StopStep ==
  \/ \E c \in Cams : StopCamera(c)
  \/ \E c \in Cams : StopJoin(c)
  \/ \E c \in Cams : DisconnectTest(c, "stop")
  \/ \E c \in Cams : DisconnectRelease(c, "stop")
  \/ \E c \in Cams : DisconnectWas(c, "stop")
  \/ \E c \in Cams : DisconnectClear(c, "stop")
  \/ StopAllReturns
  \/ StopAllRaises
  \/ JoinProcessor
  \/ CloseDatabase
  \/ CloseJoin
  \/ StopReturns

IdleAnpr == anpr = NewAnpr

\* the camera streams, the frame bus and its consumer
InitCameraSystem ==
  InitCamera /\ IdleTracker /\ IdleMatch /\ IdleOcr /\ IdleFuse /\ IdleEvents
  /\ IdlePipeline /\ IdleIou /\ IdleDatabase /\ IdleAnpr

SpecCamera == InitCameraSystem /\ [][NextCamera]_vars

\* one tracker under any sequence of frames
InitTrackerSystem ==
  InitTracker /\ IdleCamera /\ IdleMatch /\ IdleOcr /\ IdleFuse /\ IdleEvents
  /\ IdlePipeline /\ IdleIou /\ IdleDatabase /\ IdleAnpr

NextTracker == UpdateCall

SpecTracker == InitTrackerSystem /\ [][NextTracker]_vars

\* one call of _match on any tracks and detections
InitMatchSystem ==
  InitMatch /\ IdleCamera /\ IdleTracker /\ IdleOcr /\ IdleFuse /\ IdleEvents
  /\ IdlePipeline /\ IdleIou /\ IdleDatabase /\ IdleAnpr

NextMatch == MatchCall

SpecMatch == InitMatchSystem /\ [][NextMatch]_vars

\* one OCR engine used by the processor on the tracks of its camera
InitOcrSystem ==
  InitOcr /\ IdleCamera /\ IdleTracker /\ IdleMatch /\ IdleFuse /\ IdleEvents
  /\ IdlePipeline /\ IdleIou /\ IdleDatabase /\ IdleAnpr

SpecOcr == InitOcrSystem /\ [][NextOcr]_vars

\* one call of fuse_readings on any reading sequence
InitFuseSystem ==
  InitFuse /\ IdleCamera /\ IdleTracker /\ IdleMatch /\ IdleOcr /\ IdleEvents
  /\ IdlePipeline /\ IdleIou /\ IdleDatabase /\ IdleAnpr

NextFuse == FuseCall

SpecFuse == InitFuseSystem /\ [][NextFuse]_vars

\* one event engine under any sequence of tracks, plates, calls and cleanups
InitEventsSystem ==
  InitEvents /\ IdleCamera /\ IdleTracker /\ IdleMatch /\ IdleOcr /\ IdleFuse
  /\ IdlePipeline /\ IdleIou /\ IdleDatabase /\ IdleAnpr

SpecEvents == InitEventsSystem /\ [][NextEvents]_vars

\* the processor of one camera with OCR disabled and no plate required:
\* tracker and event engine, frame by frame
InitPipelineSystem ==
  InitPipeline /\ IdleCamera /\ IdleMatch /\ IdleOcr /\ IdleFuse /\ IdleIou /\ IdleDatabase /\ IdleAnpr

SpecPipeline == InitPipelineSystem /\ [][NextPipeline]_vars

\* one call of iou in each order on any two boxes
InitIouSystem ==
  InitIou /\ IdleCamera /\ IdleTracker /\ IdleMatch /\ IdleOcr /\ IdleFuse
  /\ IdleEvents /\ IdlePipeline /\ IdleDatabase /\ IdleAnpr

NextIou == IouCall

SpecIou == InitIouSystem /\ [][NextIou]_vars

\* one DatabaseManager with its writer thread, its callers and close()
InitDatabaseSystem ==
  InitDatabase /\ IdleCamera /\ IdleTracker /\ IdleMatch /\ IdleOcr /\ IdleFuse
  /\ IdleEvents /\ IdlePipeline /\ IdleIou /\ IdleAnpr

SpecDatabase == InitDatabaseSystem /\ [][NextDatabase]_vars

\* the pipeline from start() to the end of stop(): every thread that is
\* able to take a step takes one eventually
InitShutdownSystem ==
  InitShutdown /\ IdleTracker /\ IdleMatch /\ IdleOcr /\ IdleFuse
  /\ IdleEvents /\ IdlePipeline /\ IdleIou

NextShutdown ==
  \/ PipelineStop
  \/ \E c \in Cams : CaptureStep(c)
  \/ ProcTest
  \/ ProcGet
  \/ ProcFrame
  \/ WriterTest
  \/ WriterGet
  \/ WriterDecide
  \/ WriterFlush
  \/ ExecuteOp
  \/ Commit
  \/ \E c \in Cams : StopCamera(c)
  \/ \E c \in Cams : StopJoin(c)
  \/ \E c \in Cams : DisconnectTest(c, "stop")
  \/ \E c \in Cams : DisconnectRelease(c, "stop")
  \/ \E c \in Cams : DisconnectWas(c, "stop")
  \/ \E c \in Cams : DisconnectClear(c, "stop")
  \/ StopAllReturns
  \/ StopAllRaises
  \/ JoinProcessor
  \/ CloseDatabase
  \/ CloseJoin
  \/ StopReturns

FairShutdown ==
  /\ \A c \in 1..ShutdownCameras : WF_vars(CaptureStep(c))
  /\ WF_vars(ProcessorStep)
  /\ WF_vars(WriterStep)
  /\ WF_vars(StopStep)

SpecShutdown == InitShutdownSystem /\ [][NextShutdown]_vars /\ FairShutdown

(***************************************************************************)
(* Properties of the camera stream and the frame bus                       *)
(***************************************************************************)
CapturePc(c) == thread[c].capture.pc

PublishStep(c) == CapturePc(c) = "put" /\ CapturePc(c)' # "put"

QueueFull == Len(frame_queue) = config.frame_queue_size

\* C1: a publish onto a full frame bus does not block (the step is enabled), the
\* frame is discarded (the bus keeps its contents), dropped_frames grows by
\* exactly 1 and frame_count stays.
FullQueueDropsFrame ==
  /\ [](\A c \in Cams : CapturePc(c) = "put" => ENABLED Publish(c))
  /\ [][\A c \in Cams :
          (PublishStep(c) /\ QueueFull) =>
             /\ stream'[c].dropped_frames = stream[c].dropped_frames + 1
             /\ stream'[c].frame_count = stream[c].frame_count
             /\ frame_queue' = frame_queue]_vars

FullQueueDropsFrameWitness ==
  \E c \in Cams : stream[c].dropped_frames >= 1 /\ QueueFull /\ CapturePc(c) = "loop"

InFlight(c) == IF CapturePc(c) = "put" THEN 1 ELSE 0

\* C2: every successful capture read is counted once, as a captured or as a
\* dropped frame (or is the one being published); the bus never holds more than
\* frame_queue_size frames; with the processor stalled, after K reads of the only
\* camera the bus holds min(K, N) frames and dropped_frames = max(0, K - N).
BackpressureCounts ==
  /\ Len(frame_queue) <= config.frame_queue_size
  /\ \A c \in Cams :
       /\ obs[c].reads = stream[c].frame_count + stream[c].dropped_frames + InFlight(c)
       /\ (env.stalled /\ Cams = {c} /\ CapturePc(c) # "put") =>
             /\ Len(frame_queue) = Min(obs[c].reads, config.frame_queue_size)
             /\ stream[c].dropped_frames = Max(0, obs[c].reads - config.frame_queue_size)

BackpressureCountsWitness ==
  \E c \in Cams :
    /\ env.stalled /\ config.frame_queue_size = 2
    /\ obs[c].reads = 10 /\ CapturePc(c) = "loop"
    /\ stream[c].dropped_frames = 8 /\ Len(frame_queue) = 2

StrictlyIncreasing(q) == \A i \in 1..Len(q) : \A j \in 1..Len(q) : i < j => q[i] < q[j]

\* C3: for every camera, the frame ids the processor dequeues are strictly
\* increasing, whatever the interleaving of the camera threads and the processor.
PerCameraOrder == \A c \in Cams : StrictlyIncreasing(obs[c].dequeued)

PerCameraOrderWitness ==
  /\ Cams = {1, 2}
  /\ \A c \in Cams : Len(obs[c].dequeued) >= 2 /\ stream[c].dropped_frames >= 1

AfterFailedConnect(c) ==
  CapturePc(c) = "wait" /\ thread[c].capture.site \in {"L99", "L129"}

\* C4: the wait that follows the j-th consecutive failed connect attempt is
\* min(2^(j-1), 60) seconds, and a successful connect leaves reconnect_attempts
\* at 0. (A wait entered with stop_event set returns at once and no attempt
\* follows it, so only waits entered without the stop signal are waits.)
BackoffSchedule ==
  \A c \in Cams :
    /\ (AfterFailedConnect(c) /\ ~stream[c].stop_event) =>
          thread[c].capture.delay = Min(Pow2(obs[c].fails - 1), 60)
    /\ CapturePc(c) \in {"getprops", "emit_connected"} => stream[c].reconnect_attempts = 0

BackoffScheduleWitness ==
  \E c \in Cams :
    /\ AfterFailedConnect(c) /\ ~stream[c].stop_event
    /\ Len(obs[c].emitted) = 2
    /\ obs[c].fails = 7 /\ thread[c].capture.delay = 60

InOutage(c) == obs[c].cause \in {"read_failed", "read_raised"}

CameraEventsAlternate ==
  \A c \in Cams : \A i \in 1..Len(obs[c].emitted) :
    obs[c].emitted[i] = IF i % 2 = 1 THEN "CameraConnected" ELSE "CameraDisconnected"

CountersChange(c) ==
  \/ stream'[c].frame_count # stream[c].frame_count
  \/ stream'[c].dropped_frames # stream[c].dropped_frames

LastEmitted(c) ==
  IF obs[c].emitted = <<>> THEN "none" ELSE obs[c].emitted[Len(obs[c].emitted)]

\* C7: a frame is published (enqueued or counted as dropped) only while
\* is_connected is true and the last event emitted is CameraConnected.
FramesOnlyWhileConnected ==
  [][\A c \in Cams :
       CountersChange(c) =>
          stream[c].is_connected /\ LastEmitted(c) = "CameraConnected"]_vars

(***************************************************************************)
(* Properties of the tracker                                               *)
(***************************************************************************)
ListedChange(ch) ==
  \/ ch.from = "tentative" /\ ch.to = "confirmed" /\ ch.matched
       /\ ch.hits >= tracking.min_hits
  \/ ch.from = "confirmed" /\ ch.to = "lost" /\ ~ch.matched
  \/ ch.from = "lost" /\ ch.to = "confirmed" /\ ch.matched
  \/ ch.from = "lost" /\ ch.to = "deleted" /\ ~ch.matched
       /\ ch.time_since_update > tracking.max_lost_frames

TentativeExpiry(ch) ==
  /\ ch.from = "tentative" /\ ch.to = "deleted" /\ ~ch.matched
  /\ ch.time_since_update > tracking.max_lost_frames

\* C8 as claimed: every state change update() makes is Tentative -> Confirmed,
\* Confirmed -> Lost, Lost -> Confirmed or Lost -> Deleted, under the listed
\* conditions; a track is Deleted only from Lost.
LifecycleChangesAsListed == \A ch \in last.changes : ListedChange(ch)

\* C8 amended: every state change update() makes is one of the four listed, or
\* Tentative -> Deleted for an unmatched Tentative track whose
\* time_since_update exceeds max_lost_frames; no change leads to Tentative.
LifecycleChanges ==
  \A ch \in last.changes :
    /\ ListedChange(ch) \/ TentativeExpiry(ch)
    /\ ch.to # "tentative"

LifecycleChangesWitness ==
  /\ \E ch \in last.changes : TentativeExpiry(ch)
  /\ \E ch \in last.changes : ch.from = "lost" /\ ch.to = "deleted"

\* C9: a stored Tentative track has hits < min_hits, a stored Confirmed or Lost
\* track has hits >= min_hits.
HitsMatchState ==
  \A id \in DOMAIN tracks :
    /\ tracks[id].state = "tentative" => tracks[id].hits < tracking.min_hits
    /\ tracks[id].state \in {"confirmed", "lost"} => tracks[id].hits >= tracking.min_hits

\* C10: after every update() no stored track has time_since_update above
\* max_lost_frames or is Deleted, and the track map and the Kalman-filter map
\* have the same keys.
ExpiredTracksRemoved ==
  /\ \A id \in DOMAIN tracks :
       /\ tracks[id].time_since_update <= tracking.max_lost_frames
       /\ tracks[id].state # "deleted"
  /\ DOMAIN tracks = kalman_filters

ExpiredTracksRemovedWitness ==
  /\ \E ch \in last.changes : ch.to = "deleted"
  /\ \E id \in DOMAIN tracks : tracks[id].time_since_update = tracking.max_lost_frames
                                /\ tracks[id].state = "lost"

\* C11: every stored track has hits <= age + 1 and time_since_update <= age.
HitsAndAgeBounds ==
  \A id \in DOMAIN tracks :
    /\ tracks[id].hits <= tracks[id].age + 1
    /\ tracks[id].time_since_update <= tracks[id].age

HitsAndAgeBoundsWitness ==
  /\ \E id \in DOMAIN tracks : tracks[id].age >= 2 /\ tracks[id].hits = tracks[id].age + 1
  /\ \E id \in DOMAIN tracks : tracks[id].age >= 1
                                /\ tracks[id].time_since_update = tracks[id].age

CreatedIds == {last.created[k].track_id : k \in 1..Len(last.created)}

MatchedDets == {p[2] : p \in last.matched}

\* C12: in one update() call the unmatched detections, and only they, create
\* one new track each, stored as Tentative with hits = 1, age = 0,
\* time_since_update = 0 and the detection's box; the number of detections is
\* at most the number of tracks before plus the number after the call.
OneTrackPerUnmatchedDetection ==
  /\ {last.created[k].j : k \in 1..Len(last.created)}
        = (1..Len(last.detections)) \ MatchedDets
  /\ Cardinality(CreatedIds) = Len(last.created)
  /\ Len(last.created) = Len(last.detections) - Cardinality(MatchedDets)
  /\ CreatedIds \cap last.before = {}
  /\ DOMAIN tracks \ last.before = CreatedIds
  /\ \A k \in 1..Len(last.created) :
        LET id == last.created[k].track_id
        IN  /\ id \in DOMAIN tracks
            /\ tracks[id] = [state |-> "tentative", hits |-> 1, age |-> 0,
                             time_since_update |-> 0,
                             bbox |-> last.detections[last.created[k].j]]
  /\ Len(last.detections) <= Cardinality(last.before) + Cardinality(DOMAIN tracks)

OneTrackPerUnmatchedDetectionWitness ==
  /\ Len(last.detections) = 2
  /\ Cardinality(last.matched) = 1
  /\ Len(last.created) = 1
  /\ Cardinality(last.before) = 1

\* C13: the ids assigned by one tracker are 1, 2, 3, ... in creation order, so
\* every new id is greater than every id assigned before and none is used
\* twice, also after its track was deleted.
TrackIdsIncrease ==
  /\ \A i \in 1..Len(last.assigned) : last.assigned[i] = i
  /\ \A id \in DOMAIN tracks : id < next_track_id
  /\ next_track_id = Len(last.assigned) + 1

TrackIdsIncreaseWitness ==
  /\ Len(last.assigned) = 2
  /\ Len(last.created) = 1 /\ last.created[1].track_id = 2
  /\ last.before = {}

(***************************************************************************)
(* Properties of the association                                           *)
(***************************************************************************)
MTracks == DOMAIN match.tracks

MDets == 1..Len(match.detections)

CellIou(c) == iou(match.tracks[c[1]].bbox, match.detections[c[2]])

Candidates == {c \in MTracks \X MDets : FracGt(CellIou(c), match.iou_threshold)}

\* the row of a track in the IoU matrix: its position in list(self.tracks.keys())
Row(t) == Cardinality({u \in MTracks : u < t})

SameIou(c0, c) == ~FracGt(CellIou(c0), CellIou(c)) /\ ~FracGt(CellIou(c), CellIou(c0))

\* c0 is considered before c: higher IoU, or equal IoU and enumerated first
Before(c0, c) ==
  \/ FracGt(CellIou(c0), CellIou(c))
  \/ /\ SameIou(c0, c)
     /\ \/ Row(c0[1]) < Row(c[1])
        \/ c0[1] = c[1] /\ c0[2] < c[2]

Conflict(c0, c) == c0 # c /\ (c0[1] = c[1] \/ c0[2] = c[2])

\* C14: the association is a one-to-one partial matching of tracks and
\* detections, every matched pair has IoU > iou_threshold, the matched and
\* unmatched sets partition the tracks and the detections, and no unmatched
\* track and unmatched detection with IoU > iou_threshold remain.
MatchIsPartialMatching ==
  match.called =>
    LET r == match.result
    IN  /\ \A p \in r.matched : \A q \in r.matched :
              (p[1] = q[1] \/ p[2] = q[2]) => p = q
        /\ r.matched \subseteq Candidates
        /\ r.unmatched_tracks = MTracks \ {p[1] : p \in r.matched}
        /\ r.unmatched_dets = MDets \ {p[2] : p \in r.matched}
        /\ \A t \in r.unmatched_tracks : \A j \in r.unmatched_dets :
              <<t, j>> \notin Candidates

MatchIsPartialMatchingWitness ==
  /\ match.called
  /\ Cardinality(match.result.matched) = 2
  /\ \E t \in match.result.unmatched_tracks : \E j \in MDets : <<t, j>> \in Candidates
  /\ \E t \in match.result.unmatched_tracks : \E j \in MDets :
        ~FracGt(CellIou(<<t, j>>), match.iou_threshold)
        /\ ~FracGt(match.iou_threshold, CellIou(<<t, j>>))

\* C15: the candidate cells are taken in descending IoU order, cells of equal
\* IoU in the order of enumeration (lower row, then lower column): a candidate
\* is selected exactly when no cell considered before it that shares its track
\* or its detection was selected.
MatchOrderAndTies ==
  match.called =>
    \A c \in Candidates :
      c \in match.result.matched <=>
        ~\E c0 \in match.result.matched : Before(c0, c) /\ Conflict(c0, c)

MatchOrderAndTiesWitness ==
  /\ match.called
  /\ \E c0 \in match.result.matched : \E c \in Candidates :
        /\ Conflict(c0, c) /\ SameIou(c0, c) /\ Row(c0[1]) < Row(c[1])
        /\ match.tracks[c0[1]].bbox # match.tracks[c[1]].bbox
  /\ \E c0 \in match.result.matched : \E c \in Candidates :
        /\ Conflict(c0, c) /\ FracGt(CellIou(c0), CellIou(c)) /\ Row(c[1]) < Row(c0[1])

\* C16: update() returns exactly the stored tracks that are Confirmed or
\* Lost; no returned track is Tentative, and every returned track has been
\* Confirmed.
ReturnsConfirmedAndLost ==
  /\ last.returned = {id \in DOMAIN tracks : tracks[id].state \in {"confirmed", "lost"}}
  /\ \A id \in last.returned :
        tracks[id].state # "tentative" /\ id \in last.was_confirmed

ReturnsConfirmedAndLostWitness ==
  /\ \E id \in last.returned : tracks[id].state = "lost"
  /\ \E id \in DOMAIN tracks : tracks[id].state = "tentative" /\ id \notin last.returned
  /\ last.frame >= 3

(***************************************************************************)
(* Properties of the OCR engine                                            *)
(***************************************************************************)
AtCapacity == ocr.active_ocr_count = ocr_config.max_concurrent

\* the step in which an admission attempt returns (lines 172 and 119)
AttemptStep == proc.pc \in {"can_process", "recognize"} /\ proc'.pc # proc.pc

\* the step in which a recognition is admitted (lines 123-125)
AdmitStep == ocr'.total_ocr_calls # ocr.total_ocr_calls

\* the step in which a recognition completes (line 184)
CompleteStep == proc.pc = "finally" /\ proc'.pc # "finally"

\* C17: with active_ocr_count = max_concurrent, can_process is false for
\* every track, and an admission attempt made then returns to the caller with
\* the engine (count, last_ocr_time, counters) and the plates unchanged.
OcrAtCapacityRefuses ==
  /\ [](AtCapacity => \A t \in OcrTracks : ~can_process(t, proc.now))
  /\ [][(AttemptStep /\ AtCapacity) =>
          proc'.pc = "idle" /\ ocr' = ocr /\ plates' = plates]_vars

OcrAtCapacityRefusesWitness ==
  /\ ocr_config.enabled /\ AtCapacity
  /\ seen.refused = "concurrent" /\ proc.pc = "idle" /\ proc.track_id = 2

InProgress == proc.pc \in {"oracle", "finally"}

\* C18: active_ocr_count grows by 1 in every admission, falls by 1 in every
\* completion, whatever the outcome, and changes in no other step; it stays
\* within 0..max_concurrent and is 0 when no recognition is in progress.
ActiveCountBalanced ==
  /\ [](/\ 0 <= ocr.active_ocr_count
        /\ ocr.active_ocr_count <= ocr_config.max_concurrent
        /\ ~InProgress => ocr.active_ocr_count = 0
        /\ InProgress => ocr.active_ocr_count = 1)
  /\ [][ocr'.active_ocr_count =
          ocr.active_ocr_count + (IF AdmitStep THEN 1 ELSE 0)
                               - (IF CompleteStep THEN 1 ELSE 0)]_vars

ActiveCountBalancedWitness ==
  /\ proc.pc = "result" /\ proc.outcome = "raised"
  /\ ocr.active_ocr_count = 0
  /\ ocr.total_ocr_calls = 2 /\ ocr.successful_reads = 1 /\ ocr.failed_reads = 1

TooEarly(t) ==
  /\ t \in DOMAIN ocr.last_ocr_time
  /\ proc.now - ocr.last_ocr_time[t] < ocr_config.throttle_frames

\* C19: an attempt made less than throttle_frames / 20 s after the track's last
\* admission is refused; an admission stamps last_ocr_time[track] with the
\* time of admission, at least throttle_frames / 20 s after the previous stamp,
\* and the stamp stays whatever the recognition returns.
OcrThrottle ==
  /\ [](\A t \in OcrTracks : TooEarly(t) => ~can_process(t, proc.now))
  /\ [][AdmitStep =>
          /\ proc.track_id \in DOMAIN ocr'.last_ocr_time
          /\ ocr'.last_ocr_time[proc.track_id] = proc.now
          /\ proc.track_id \in DOMAIN ocr.last_ocr_time =>
                proc.now - ocr.last_ocr_time[proc.track_id]
                   >= ocr_config.throttle_frames]_vars
  /\ [][~AdmitStep => ocr'.last_ocr_time = ocr.last_ocr_time]_vars

OcrThrottleWitness ==
  /\ ocr_config.throttle_frames = 2
  /\ DOMAIN ocr.last_ocr_time = {1} /\ ocr.last_ocr_time[1] = 2
  /\ ocr.total_ocr_calls = 2 /\ ocr.failed_reads = 2
  /\ seen.refused = "throttle"

\* C20: a locked plate has a plate_text, and no step changes the plate_text,
\* plate_confidence or plate_readings of a track whose plate is locked: they
\* stay as they were when the lock was set.
PlateLockIsFinal ==
  /\ [](\A t \in OcrTracks :
          plates[t].plate_locked =>
            /\ plates[t].plate_text # <<>>
            /\ seen.locked_as[t] = <<plates[t]>>)
  /\ [][\A t \in OcrTracks :
          plates[t].plate_locked => plates'[t] = plates[t]]_vars

PlateLockIsFinalWitness ==
  /\ plates[1].plate_locked /\ plates[2].plate_locked
  /\ seen.revisited = {1}
  /\ plates[1].plate_text # plates[2].plate_text
  /\ proc.pc = "idle" /\ proc.track_id = 2

\* the size of the largest Levenshtein group of readings (fuse_readings lines
\* 285-301), 0 when there is none
LargestGroupSize(readings) ==
  LET groups == Group(readings, <<>>)
  IN  IF groups = <<>> THEN 0
      ELSE Len(groups[CHOOSE g \in 1..Len(groups) :
                        \A h \in 1..Len(groups) : Len(groups[h]) <= Len(groups[g])])

\* the step of main.py 177-191 that adds a reading to track t and tries fusion
FusionTriggered(t) ==
  /\ proc.pc = "result" /\ proc.track_id = t /\ proc.result # <<>>
  /\ Len(plates'[t].plate_readings) >= ocr_config.fusion_min_samples

\* C21: when fusion is triggered for a track and the largest Levenshtein group
\* of its readings has fewer than fusion_min_samples members, the plate is not
\* locked by that step: plate_locked stays false and plate_text unset.
NoLockWithoutConsensus ==
  [][\A t \in OcrTracks :
       FusionTriggered(t)
       /\ LargestGroupSize(plates'[t].plate_readings) < ocr_config.fusion_min_samples
       => ~plates'[t].plate_locked /\ plates'[t].plate_text = <<>>]_vars

FuseIdx == 1..Len(fuse.readings)

\* the Levenshtein distances of the texts of FuseReadings
TextDist ==
  LET texts == {r.text : r \in FuseReadings}
  IN  [p \in texts \X texts |-> levenshtein_distance(p[1], p[2])]

FuseDist(i, j) == TextDist[<<fuse.readings[i].text, fuse.readings[j].text>>]

\* for each of the first n readings, the first member of its group: the
\* earliest first member within distance 2 of it, or itself when there is none
RECURSIVE HeadOf(_)
HeadOf(n) ==
  IF n = 0 THEN <<>>
  ELSE LET head == HeadOf(n - 1)
           fits == {h \in {head[i] : i \in 1..(n - 1)} : FuseDist(n, h) <= 2}
       IN  Append(head, IF fits = {} THEN n
                        ELSE CHOOSE h \in fits : \A j \in fits : h <= j)

\* the groups, each as the set of its members, by first member
Members ==
  LET head == HeadOf(Len(fuse.readings))
  IN  [h \in {head[i] : i \in FuseIdx} |-> {i \in FuseIdx : head[i] = h}]

\* the first member of the largest of the groups ms, the earliest on ties
LargestHead(ms) ==
  CHOOSE h \in DOMAIN ms :
    /\ \A j \in DOMAIN ms : Cardinality(ms[j]) <= Cardinality(ms[h])
    /\ \A j \in DOMAIN ms : j < h => Cardinality(ms[j]) < Cardinality(ms[h])

\* how often the text of reading i occurs in the group M
TextCount(M, i) == Cardinality({k \in M : fuse.readings[k].text = fuse.readings[i].text})

\* the first reading of the group M whose text is the most frequent in M
Consensus(M) ==
  CHOOSE i \in M :
    /\ \A k \in M : TextCount(M, k) <= TextCount(M, i)
    /\ \A k \in M : k < i => TextCount(M, k) < TextCount(M, i)

\* the spec's example, in any order and with any confidences
IsExample ==
  /\ Len(fuse.readings) = 5 /\ fuse.fusion_min_samples = 3
  /\ Cardinality({i \in FuseIdx : fuse.readings[i].text = ABC1234}) = 3
  /\ Cardinality({i \in FuseIdx : fuse.readings[i].text = ABC1Z34}) = 1
  /\ Cardinality({i \in FuseIdx : fuse.readings[i].text = XYZ0000}) = 1

\* C22: fuse_readings groups the readings greedily (each joins the first group
\* whose first member is within Levenshtein distance 2, else starts a group),
\* takes the largest group, and when that group has at least
\* fusion_min_samples members returns its most frequent text, the first met on
\* ties. For ABC1234 x3, ABC1Z34 x1, XYZ0000 x1 with fusion_min_samples = 3
\* the group has 4 members and the text is ABC1234.
FuseIsGreedyConsensus ==
  fuse.called /\ fuse.readings # <<>> =>
    /\ LET ms == Members
           M == ms[LargestHead(ms)]
       IN  Cardinality(M) >= fuse.fusion_min_samples =>
             /\ fuse.result # <<>>
             /\ fuse.result[1].text = fuse.readings[Consensus(M)].text
             /\ "num_samples" \in DOMAIN fuse.result[1]
             /\ fuse.result[1].num_samples = Cardinality(M)
    /\ IsExample =>
         /\ fuse.result # <<>>
         /\ fuse.result[1].text = ABC1234
         /\ "num_samples" \in DOMAIN fuse.result[1]
         /\ fuse.result[1].num_samples = 4

\* a tie in the largest group, whose first member is not ABC1234, and a reading
\* (ABC1Z34) within distance 2 of the first members of two groups
FuseIsGreedyConsensusWitness ==
  /\ fuse.called /\ fuse.fusion_min_samples = 3
  /\ Len(fuse.readings) = 5
  /\ fuse.readings[1].text = ABCZZZ4 /\ fuse.readings[2].text = ABC1234
  /\ fuse.readings[3].text = ABC1Z34 /\ fuse.readings[4].text = ABC1Z34
  /\ fuse.readings[5].text = ABCZZZ4
  /\ Members = (1 :> {1, 3, 4, 5}) @@ (2 :> {2})
  /\ fuse.result[1].text = ABCZZZ4

\* the place of a position state on the path Outside, Approaching, Inside,
\* Exiting, Logged (core/events.py 39-45)
Rank(state) ==
  CASE state = "outside" -> 0
    [] state = "approaching" -> 1
    [] state = "inside" -> 2
    [] state = "exiting" -> 3
    [] state = "logged" -> 4

\* the tracks the tracker has created so far
Known == 1..Len(vehicles)

\* the step is a call of process_track on track t
Called(t) == call'.track_id = t

\* the Track object of the call that makes the step
CalledTrack == TrackOf(call'.track_id, call'.time_since_update)

\* C23: the position state the engine records for a track never moves
\* backward on the path Outside, Approaching, Inside, Exiting, Logged, and one
\* call of process_track advances it by at most one step; the state written
\* to the track is the recorded one.
PositionStatesAdvance ==
  [][\A t \in Known :
       LET before == Rank(StateOf(event_engine, t))
           after == Rank(StateOf(event_engine', t))
       IN  /\ after \in {before, before + 1}
           /\ after # before => Called(t)
           /\ Called(t) => vehicles'[t].vehicle_state = StateOf(event_engine', t)]_vars

\* both tracks have gone the whole path
PositionStatesAdvanceWitness ==
  /\ Len(vehicles) = 2
  /\ StateOf(event_engine, 1) = "logged" /\ StateOf(event_engine, 2) = "logged"
  /\ call.track_id = 2 /\ call.event # <<>>

\* the plate of track t is a duplicate now: it has a text, and an event with
\* that text is cached less than dedup_window seconds ago
Duplicate(t) ==
  /\ vehicles[t].plate_text # <<>>
  /\ \E p \in DOMAIN event_engine.recent_plates :
       /\ p = vehicles[t].plate_text
       /\ clock - event_engine.recent_plates[p] < event_config.dedup_window

\* the event of the given type the step's call returns for track t, if any
Returned(t, type) ==
  {e \in {call'.event[i] : i \in 1..Len(call'.event)} :
     e.type = type /\ e.track_id = t}

\* the step takes track t from one recorded state to another
Moves(t, from, to) ==
  StateOf(event_engine, t) = from /\ StateOf(event_engine', t) = to

EntryDue(t) ==
  /\ StateOf(event_engine, t) = "approaching"
  /\ clock - vehicles[t].first_seen >= event_config.min_dwell_time
  /\ vehicles[t].plate_locked \/ ~event_config.require_plate_for_entry
  /\ ~Duplicate(t)

\* C24: an entry event is emitted for a track exactly in the process_track
\* calls where the track is Approaching, now - first_seen >= min_dwell_time,
\* the plate is locked or require_plate_for_entry is false, and the plate is
\* not a duplicate; the track moves Approaching to Inside in exactly those
\* calls, the event goes to the database and total_entries counts it.
EntryExactlyWhenDue ==
  [][\A t \in Known :
       /\ (Called(t) /\ EntryDue(t)) <=> Returned(t, "entry") # {}
       /\ Returned(t, "entry") # {} <=> Moves(t, "approaching", "inside")
       /\ Returned(t, "entry") # {} =>
            /\ Returned(t, "entry") \subseteq emitted'
            /\ event_engine'.total_entries = event_engine.total_entries + 1]_vars

\* an entry that needed the plate, emitted for the second track
EntryExactlyWhenDueWitness ==
  /\ call.track_id = 2 /\ call.event # <<>>
  /\ call.event[1].type = "entry" /\ call.event[1].plate_text # <<>>
  /\ event_config.require_plate_for_entry
  /\ event_engine.total_entries = 2

ExitDue(t) ==
  /\ StateOf(event_engine, t) = "exiting"
  /\ call'.time_since_update > 5
  /\ vehicles[t].plate_locked \/ ~event_config.require_plate_for_exit
  /\ ~Duplicate(t)

\* C25: an exit event is emitted for a track exactly in the process_track
\* calls where the track is Exiting, time_since_update > 5, the plate is
\* locked or require_plate_for_exit is false, and the plate is not a
\* duplicate; the track moves Exiting to Logged in exactly those calls, the
\* event goes to the database and total_exits counts it.
ExitExactlyWhenDue ==
  [][\A t \in Known :
       /\ (Called(t) /\ ExitDue(t)) <=> Returned(t, "exit") # {}
       /\ Returned(t, "exit") # {} <=> Moves(t, "exiting", "logged")
       /\ Returned(t, "exit") # {} =>
            /\ Returned(t, "exit") \subseteq emitted'
            /\ event_engine'.total_exits = event_engine.total_exits + 1]_vars

\* an exit that needed the plate, emitted for the second track after the
\* first track's exit
ExitExactlyWhenDueWitness ==
  /\ call.track_id = 2 /\ call.event # <<>>
  /\ call.event[1].type = "exit" /\ call.event[1].plate_text # <<>>
  /\ call.time_since_update = 6
  /\ event_config.require_plate_for_exit
  /\ event_engine.total_exits = 2

\* the entry events emitted so far
Entries == {e \in emitted : e.type = "entry"}

\* C26: no two emitted entry events of the camera carry the same non-empty
\* plate_text with timestamps less than dedup_window seconds apart, whatever
\* the tracks, the calls and the cache cleanups; a call for an Approaching
\* track whose plate is a duplicate returns no event and leaves the track
\* Approaching.
NoDuplicateEntries ==
  /\ [](\A e1 \in Entries : \A e2 \in Entries :
          e1 # e2 /\ e1.plate_text # <<>> /\ e1.plate_text = e2.plate_text
          /\ e1.timestamp <= e2.timestamp
          => e2.timestamp - e1.timestamp >= event_config.dedup_window)
  /\ [][\A t \in Known :
          Called(t) /\ StateOf(event_engine, t) = "approaching" /\ Duplicate(t)
          => call'.event = <<>> /\ StateOf(event_engine', t) = "approaching"]_vars

\* the second track has locked the plate of the first track's entry, has
\* dwelt long enough, and its call returned nothing: it stays Approaching
NoDuplicateEntriesWitness ==
  /\ call.track_id = 2 /\ call.event = <<>>
  /\ StateOf(event_engine, 2) = "approaching" /\ Duplicate(2)
  /\ clock - vehicles[2].first_seen >= event_config.min_dwell_time
  /\ \E e \in Entries : e.track_id = 1 /\ e.plate_text = vehicles[2].plate_text

EntrySuppressed(t) ==
  /\ StateOf(event_engine, t) = "approaching"
  /\ clock - vehicles[t].first_seen >= event_config.min_dwell_time
  /\ \/ event_config.require_plate_for_entry /\ ~vehicles[t].plate_locked
     \/ Duplicate(t)

ExitSuppressed(t) ==
  /\ StateOf(event_engine, t) = "exiting"
  /\ call'.time_since_update > 5
  /\ \/ event_config.require_plate_for_exit /\ ~vehicles[t].plate_locked
     \/ Duplicate(t)

\* C27: a process_track call whose entry or exit is suppressed (the plate is
\* a duplicate, or a required plate is not locked yet) returns no event and
\* changes nothing: the track's position state, the dedup cache and the
\* counters stay as they were, and nothing is handed to the database.
SuppressedCallChangesNothing ==
  [][\A t \in Known :
       Called(t) /\ (EntrySuppressed(t) \/ ExitSuppressed(t)) =>
         /\ call'.event = <<>>
         /\ event_engine' = event_engine
         /\ vehicles' = vehicles
         /\ emitted' = emitted]_vars

\* both tracks have entered; the exit of the first waits for its plate
SuppressedCallChangesNothingWitness ==
  /\ call.track_id = 1 /\ call.event = <<>> /\ call.time_since_update = 6
  /\ StateOf(event_engine, 1) = "exiting"
  /\ event_config.require_plate_for_exit /\ ~vehicles[1].plate_locked
  /\ event_engine.total_entries = 2 /\ event_engine.total_exits = 0

\* the exit events emitted so far
Exits == {e \in emitted : e.type = "exit"}

\* C28: every emitted exit event has entry_time equal to its track's
\* first_seen, exit_time equal to the event's timestamp, and
\* duration = exit_time - entry_time >= 0.
ExitEventTimes ==
  \A e \in Exits :
    /\ e.entry_time = vehicles[e.track_id].first_seen
    /\ e.exit_time = e.timestamp
    /\ e.duration = e.exit_time - e.entry_time
    /\ e.duration >= 0

\* the exit of a track first seen after the start, two seconds later
ExitEventTimesWitness ==
  \E e \in Exits :
    /\ e.track_id = 2 /\ e.entry_time = 1 /\ e.exit_time = 3 /\ e.duration = 2
    /\ call.track_id = 2 /\ call.event = <<e>>

\* an event with the plate of track t was emitted less than dedup_window
\* seconds ago
RecentEventForPlate(t) ==
  \E e \in emitted :
    /\ e.plate_text # <<>> /\ e.plate_text = vehicles[t].plate_text
    /\ clock - e.timestamp < event_config.dedup_window

\* C30: entries and exits share the per-plate timestamp of the dedup cache.
\* An exit event with plate P is emitted no sooner than dedup_window seconds
\* after every earlier event (entry or exit) with plate P, the track's own
\* entry included; a call for an Exiting track made within that window
\* returns no event and leaves the track Exiting.
ExitWaitsForDedupWindow ==
  /\ [](\A x \in Exits : \A e \in emitted :
          e # x /\ x.plate_text # <<>> /\ e.plate_text = x.plate_text
          /\ e.timestamp <= x.timestamp
          => x.timestamp - e.timestamp >= event_config.dedup_window)
  /\ [][\A t \in Known :
          Called(t) /\ StateOf(event_engine, t) = "exiting" /\ RecentEventForPlate(t)
          => call'.event = <<>> /\ StateOf(event_engine', t) = "exiting"]_vars

\* the track's own entry carried its plate less than dedup_window ago: the
\* call with time_since_update = 6 returned nothing
ExitWaitsForDedupWindowWitness ==
  /\ call.track_id = 1 /\ call.event = <<>> /\ call.time_since_update = 6
  /\ StateOf(event_engine, 1) = "exiting"
  /\ ~event_config.require_plate_for_exit
  /\ \E e \in Entries :
       /\ e.track_id = 1 /\ e.plate_text # <<>>
       /\ e.plate_text = vehicles[1].plate_text
       /\ clock - e.timestamp < event_config.dedup_window

\* C29: with require_plate_for_exit = false and max_lost_frames >= 6, a
\* track that became Exiting and then got no detection in 6 frames of its
\* camera in a row is Logged, and exactly one exit event was emitted for it.
ExitAfterSixMissedFrames ==
  ~event_config.require_plate_for_exit /\ tracking.max_lost_frames >= 6 =>
    \A t \in DOMAIN pipeline.unseen :
      pipeline.unseen[t] >= 6 =>
        /\ StateOf(event_engine, t) = "logged"
        /\ Cardinality({e \in Exits : e.track_id = t}) = 1

(***************************************************************************)
(* Properties of iou                                                       *)
(***************************************************************************)
\* the interiors of the two boxes share no point: they are apart or only
\* touch along an edge or at a corner
Apart(a, b) == a[3] <= b[1] \/ b[3] <= a[1] \/ a[4] <= b[2] \/ b[4] <= a[2]

\* the value of the fraction p is the value of the fraction q
FracEq(p, q) == p[1] * q[2] = q[1] * p[2]

\* C37: for boxes with integer corners and positive width and height,
\* iou(a, b) = iou(b, a), and iou(a, b) is 0 whenever the boxes are disjoint
\* or only touch along an edge
IouSymmetricAndZeroApart ==
  iou_call.called =>
    /\ iou_call.forth = iou_call.back
    /\ FracEq(iou_call.forth, iou_call.back)
    /\ iou_call.forth[2] > 0
    /\ Apart(iou_call.bbox1, iou_call.bbox2) => iou_call.forth[1] = 0
    /\ ~Apart(iou_call.bbox1, iou_call.bbox2) => iou_call.forth[1] > 0

\* two different boxes that touch along an edge, after the call
IouSymmetricAndZeroApartWitness ==
  /\ iou_call.called
  /\ iou_call.bbox1 = <<0, 0, 1, 2>>
  /\ iou_call.bbox2 = <<1, 0, 3, 2>>
  /\ iou_call.forth[1] = 0

\* the events of a type emitted so far for track t
EmittedFor(t, type) == {e \in emitted : e.track_id = t /\ e.type = type}

\* C38: for every track at most one entry event and at most one exit event
\* are ever emitted, an exit event only after an entry event for the same
\* track; hence total_exits <= total_entries in every state of the engine.
OneEntryThenOneExit ==
  /\ [](/\ event_engine.total_exits <= event_engine.total_entries
        /\ \A t \in Known :
             /\ Cardinality(EmittedFor(t, "entry")) <= 1
             /\ Cardinality(EmittedFor(t, "exit")) <= 1
             /\ EmittedFor(t, "exit") # {} => EmittedFor(t, "entry") # {}
             /\ \A x \in EmittedFor(t, "exit") : \A n \in EmittedFor(t, "entry") :
                  n.timestamp <= x.timestamp)
  /\ [][\A t \in Known :
          /\ Returned(t, "entry") # {} => EmittedFor(t, "entry") = {}
          /\ Returned(t, "exit") # {} =>
               EmittedFor(t, "entry") # {} /\ EmittedFor(t, "exit") = {}]_vars

\* both tracks have entered and left, and a further call on a Logged track
\* has returned no event
OneEntryThenOneExitWitness ==
  /\ call.track_id = 1 /\ call.event = <<>>
  /\ StateOf(event_engine, 1) = "logged"
  /\ EmittedFor(1, "entry") # {} /\ EmittedFor(1, "exit") # {}
  /\ event_engine.total_entries = 2 /\ event_engine.total_exits = 1

(***************************************************************************)
(* Properties of the tracks the processor hands to the event engine        *)
(***************************************************************************)
\* C39: every track handed to process_track has time_since_update <=
\* max_lost_frames (the tracker deletes a track in the update where its
\* time_since_update first exceeds max_lost_frames); so when
\* max_lost_frames <= 5 no track becomes Logged and no exit event is emitted.
HandedTracksNotOverdue ==
  /\ \A t \in last.returned :
       /\ t \in DOMAIN tracks
       /\ tracks[t].time_since_update <= tracking.max_lost_frames
  /\ tracking.max_lost_frames <= 5 =>
       /\ \A t \in 1..Len(vehicles) : StateOf(event_engine, t) # "logged"
       /\ Exits = {}
       /\ event_engine.total_exits = 0

\* with max_lost_frames = 5, an Exiting track handed over after five frames
\* without a detection of its own
HandedTracksNotOverdueWitness ==
  /\ tracking.max_lost_frames = 5
  /\ \E t \in last.returned :
       /\ tracks[t].time_since_update = 5
       /\ StateOf(event_engine, t) = "exiting"
       /\ pipeline.unseen[t] = 5

(***************************************************************************)
(* Properties of the readings a track stores                               *)
(***************************************************************************)
\* the number of readings at which the processor locks the plate
LockAt == Max(1, ocr_config.fusion_min_samples)

\* C40: a track's plate is locked in the very step of the frame in which its
\* stored readings reach fusion_min_samples; no OCR is attempted on a locked
\* track; so a track never stores more than max(1, fusion_min_samples)
\* readings.
LockedWhenReadingsReachMin ==
  /\ [](\A t \in OcrTracks :
          /\ Len(plates[t].plate_readings) <= LockAt
          /\ plates[t].plate_locked <=> Len(plates[t].plate_readings) = LockAt)
  /\ [](proc.pc # "idle" => ~plates[proc.track_id].plate_locked)
  /\ [][\A t \in OcrTracks :
          /\ Len(plates'[t].plate_readings) # Len(plates[t].plate_readings) =>
               /\ proc.pc = "result" /\ proc.track_id = t
               /\ Len(plates'[t].plate_readings) = Len(plates[t].plate_readings) + 1
               /\ Len(plates'[t].plate_readings) >= ocr_config.fusion_min_samples
                    => plates'[t].plate_locked
          /\ plates[t].plate_locked =>
               /\ plates'[t] = plates[t]
               /\ ~(proc'.pc # "idle" /\ proc'.track_id = t)]_vars

\* a track locked on its second reading, which differs from the first
LockedWhenReadingsReachMinWitness ==
  \E t \in OcrTracks :
    /\ plates[t].plate_locked
    /\ ocr_config.fusion_min_samples = 2
    /\ Len(plates[t].plate_readings) = 2
    /\ plates[t].plate_readings[1].text = <<1, 2, 3>>
    /\ plates[t].plate_readings[2].text = <<5, 6, 7>>
    /\ proc.pc = "idle"

(***************************************************************************)
(* Properties of the database writer                                       *)
(***************************************************************************)
\* the step is a put that the full queue refuses
Refuses == dbenv'.history.refused # dbenv.history.refused

\* C31: an insert never blocks: when the write queue holds 1000 records the
\* new record is dropped, the queue is unchanged, and the drop is counted in
\* a counter that the statistics expose.
DropsAreCounted ==
  [][/\ \A type \in dbenv.scenario.types :
          dbenv.puts < dbenv.scenario.inserts => ENABLED Put(type)
     /\ Refuses =>
          /\ Len(database.write_queue) = write_queue_maxsize
          /\ database'.write_queue = database.write_queue
          /\ get_stats(database') # get_stats(database)]_vars

\* the step is the writer's, just woken from its get (line 156) with or
\* without a record: it tests should_commit
AtWake == database.writer.pc = "decide" /\ database'.writer.pc # "decide"

\* a batch to commit: it holds records, and either 10 of them or 500 ms have
\* passed since the last batch was done (since the start, before the first)
FlushDue ==
  /\ database.writer.batch # <<>>
  /\ \/ Len(database.writer.batch) >= batch_size
     \/ dbenv.now - dbenv.history.flushed_at >= commit_interval

\* C32: the writer commits its batch on the first wake at which the batch
\* holds 10 records or at least 500 ms have passed since the last commit; the
\* batch never holds more than 10 records and an empty batch is never
\* committed.
BatchFlushPolicy ==
  /\ [](/\ Len(database.writer.batch) <= batch_size
        /\ database.writer.pc \in {"execute", "rollback"} =>
             database.writer.batch # <<>>
        /\ {} \notin dbenv.history.flushed)
  /\ [][AtWake =>
          /\ FlushDue <=> database'.writer.pc = "execute"
          /\ FlushDue => Ids(database.writer.batch) \in dbenv'.history.flushed
          /\ ~FlushDue => /\ database'.writer.batch = database.writer.batch
                          /\ dbenv'.history.flushed = dbenv.history.flushed]_vars

\* a batch of 10 records flushed before 500 ms have passed, and a batch of one
\* record flushed because 500 ms have passed
BatchFlushPolicyWitness ==
  /\ database.writer.pc = "execute" /\ ~database.writer.final
  /\ Len(database.writer.batch) = batch_size
  /\ dbenv.now - dbenv.history.flushed_at < commit_interval
  /\ \E b \in dbenv.history.flushed : Cardinality(b) = 1

\* the ids of the rows that are durable
Durable == {r.id : r \in database.conn.committed}

\* the writer is inside _execute_batch
Executing == database.writer.pc \in {"execute", "rollback"}

CloseDrainsQueue ==
  database.closer = "closed" =>
    /\ database.write_queue = <<>>
    /\ dbenv.history.before_close \subseteq Durable \cup dbenv.history.failed

\* C36: a read through the manager, concurrent with the writer, returns only
\* rows of committed batches: never a row of a batch that is still in
\* progress or that is rolled back afterwards.
ReadsSeeCommittedOnly ==
  [][dbenv'.history.read # dbenv.history.read =>
       dbenv'.history.read \subseteq database.conn.committed]_vars

\* the capture thread of camera c has left _capture_loop
CaptureOver(c) == pcOf(c, "capture") \in {"ended", "raised"}

\* C35: once stop() has set the stop signal, every worker leaves its loop
\* eventually: the capture thread of every camera, the processor thread and
\* the database writer
StopEndsEveryWorker ==
  anpr.stop_event ~> (/\ \A c \in 1..ShutdownCameras : CaptureOver(c)
                      /\ anpr.processor = "ended"
                      /\ database.writer.pc = "stopped")

====
